---- MODULE Spec2Model ----
(***************************************************************************)
(* A model of gophercheck: the AnalysisResult aggregate and its score      *)
(* (internal/models/issue.go), the pattern detectors                       *)
(* (internal/analyzer/detectors) and the analysis context builder          *)
(* (internal/analyzer/ast_walker.go).                                      *)
(***************************************************************************)
EXTENDS Integers, Sequences, FiniteSets, TLC

VARIABLES
    result,     \* the *AnalysisResult under construction (models.AnalysisResult)
    scoreState, \* "never": CalculateScore has not run; "fresh": it ran after the
                \* latest AddIssue; "stale": a finding was added since it ran
    lastScore,  \* PerformanceScore before the latest CalculateScore, -1 before the first
    cxConfig,   \* ComplexityDetector.config: Nil or the cyclomatic-complexity rule
    cxFn,       \* the *ast.FuncDecl the complexity visitor was last called on, or Nil
    cxCount,    \* how many FuncDecl nodes of the file ast.Walk has passed to Visit
    cxIssues,   \* complexityVisitor.issues
    icConfig,   \* ImportCycleDetector.config: Nil or the import-cycle rule
    icPackages, \* ImportCycleDetector.packages: package path -> packageInfo
    icFiles,    \* the parsed files of the run, in the order AnalyzeFiles got them
    icNext,     \* the index in icFiles of the next file AnalyzeFiles hands to Detect
    icIssues,   \* the import-cycle findings AnalyzeFiles has added to the result
    icRuns,     \* the AnalyzeFiles calls that returned: the files and findings of each
    nlConfig,   \* NestedLoopDetector.config: Nil or the nested-loop rule
    nlFile,     \* the function declaration of the file given to the nested-loop detector
    nlContext,  \* AnalysisContext.LoopContext: loop node -> LoopInfo
    nlPhase,    \* "parsed", then "context" (buildAnalysisContext ran), then "detected"
    nlIssues,   \* nestedLoopVisitor.issues
    scConfig,   \* StringConcatDetector.config: Nil or the string-concatenation rule
    scFile,     \* the function declaration of the file given to the string detector
    scDone,     \* StringConcatDetector.Detect has run on scFile
    scIssues,   \* stringConcatVisitor.issues
    maConfig,   \* MemoryAllocDetector.config: Nil or the allocation rule
    maFile,     \* the function declaration of the file given to the allocation detector
    maDone,     \* MemoryAllocDetector.Detect has run on maFile
    maIssues,   \* memoryAllocVisitor.issues
    anConfig,   \* the *config.Config given to NewAnalyzerWithConfig, or Nil before
    anDetectors, \* Analyzer.detectors: the rule names of the detectors, in order
    anFiles,    \* the files named in the call of AnalyzeFiles
    anIssues,   \* result.Issues of the *AnalysisResult AnalyzeFiles returned
    anPhase,    \* "new", "built" (NewAnalyzerWithConfig), "analyzed", "reported"
    anReport,   \* the findings in the order the detailed report printed them
    dbEvents,   \* debouncer.events: the pending event of each pending path
    dbTimer,    \* debouncer.timer: the timer of the last add, 0 for nil
    dbTimers,   \* the state of every timer time.AfterFunc created, by number
    dbMutex,    \* debouncer.mutex: 0 when free, else the timer whose callback holds it
    dbStopChan, \* debouncer.stopChan: "open" or "closed"
    dbWatcher,  \* the fsnotify watcher and its Events channel: "open" or "closed"
    dbLoop,     \* the eventLoop goroutine: "select", "handle" (in handleEvent), "returned"
    dbEvent,    \* the event eventLoop received and is handling, or Nil
    dbChangedFiles, \* changedFiles of the flush that holds the mutex
    dbMain,     \* runWatchMode: "waiting" for a signal, or "closed" (Close has returned)
    dbReceived, \* how many events eventLoop has received
    dbTrace,    \* the adds, handler calls, handler returns and the Close, in order
    dsConfig,   \* DataStructureDetector.config: the data_structure rule, or Nil
    dsFile,     \* the file given to DataStructureDetector.Detect
    dsDone,     \* Detect has run
    dsIssues,   \* dataStructureVisitor.issues
    flConfig, \* FunctionLengthDetector.config: the function_length rule, or Nil
    flFile, \* the function declaration given to the function length detector
    flDone, \* Detect has run
    flIssues, \* functionLengthVisitor.issues
    sgConfig, \* SliceGrowthDetector.config: the slice_growth rule, or Nil
    sgFile, \* the function declarations of the file given to the slice growth detector
    sgDone, \* Detect has run
    sgIssues, \* sliceGrowthVisitor.issues
    fcPackages, \* ImportCycleDetector.packages when findCycles is called
    fcCycles, \* the cycles findCycles returned
    fcDone, \* findCycles has returned
    ltDetector, \* the detector whose traversal is followed
    ltFile, \* the function declarations of the file it walks
    ltVisits, \* the calls of Visit: the node, and loopDepth and inLoop as the visitor had them
    ltFinal, \* loopDepth and inLoop of the visitor when ast.Walk has returned
    ltDone \* the traversal has ended

scoreVars == <<result, scoreState, lastScore>>
cxVars == <<cxConfig, cxFn, cxCount, cxIssues>>
icVars == <<icConfig, icPackages, icFiles, icNext, icIssues, icRuns>>
nlVars == <<nlConfig, nlFile, nlContext, nlPhase, nlIssues>>
scVars == <<scConfig, scFile, scDone, scIssues>>
maVars == <<maConfig, maFile, maDone, maIssues>>
dsVars == <<dsConfig, dsFile, dsDone, dsIssues>>
anVars == <<anConfig, anDetectors, anFiles, anIssues, anPhase, anReport>>
dbVars == <<dbEvents, dbTimer, dbTimers, dbMutex, dbStopChan, dbWatcher, dbLoop, dbEvent,
            dbChangedFiles,
            dbMain, dbReceived, dbTrace>>
flVars == <<flConfig, flFile, flDone, flIssues>>
sgVars == <<sgConfig, sgFile, sgDone, sgIssues>>
fcVars == <<fcPackages, fcCycles, fcDone>>
ltVars == <<ltDetector, ltFile, ltVisits, ltFinal, ltDone>>
vars == <<scoreVars, cxVars, icVars, nlVars, scVars, maVars, anVars, dbVars, dsVars, flVars, sgVars, fcVars, ltVars>>

\* a nil pointer
Nil == [kind |-> "nil"]

----------------------------------------------------------------------------
(* Bounds of the model *)

\* the longest findings list the score model builds
MaxIssues == 2
\* the most if statements a generated function body is padded with
MaxPadding == 26
\* the most statements of the other shapes in a generated function body
MaxBodyLen == 1
\* the most function declarations in a file given to the complexity detector
MaxFuncs == 2
\* the number of package directories the analysed files and their imports name
NumPkgs == 4
\* the number of directories of a watched tree
WatchDirs == 2
\* the most AnalyzeFiles calls made on one Analyzer in watch mode
MaxRuns == 2
\* the most statements of the first function of a file given to the slice
\* growth detector
MaxSliceStmts == 3
\* the imports recorded for one package
MaxImports == 2
\* the longest function body given to the function length detector, in lines
MaxFunctionLines == 201
\* the deepest loop nest of a file given to the data structure detector
MaxSearchDepth == 3
\* the most file events the watcher delivers in one behaviour of the debouncer
MaxFileEvents == 3
\* the most files named in one call of AnalyzeFiles in the analyzer model
MaxAnalyzedFiles == 2
\* the deepest loop nest of a file given to the nested-loop detector
MaxLoopDepth == 3
\* the most loops wrapped around a statement of a file given to the string detector
MaxWrap == 2

----------------------------------------------------------------------------
(* internal/models/issue.go *)

SeverityLow == 0
SeverityMedium == 1
SeverityHigh == 2
SeverityCritical == 3

Severities == {SeverityLow, SeverityMedium, SeverityHigh, SeverityCritical}

\* Severity.String()
SeverityString(s) ==
    CASE s = SeverityLow -> "LOW"
      [] s = SeverityMedium -> "MEDIUM"
      [] s = SeverityHigh -> "HIGH"
      [] s = SeverityCritical -> "CRITICAL"
      [] OTHER -> "UNKNOWN"

IssueNestedLoops == "nested_loops"
IssueStringConcat == "string_concatenation"
IssueInefficinetDS == "inefficient_data_structure"
IssueCyclomaticComplex == "cyclomatic_complexity"
IssueMemoryAlloc == "memory_allocation"
IssueSliceGrowth == "slice_growth"
IssueFunctionLength == "function_length"
IssueImportCycle == "import_cycle"

IssueTypes ==
    {IssueNestedLoops, IssueStringConcat, IssueInefficinetDS, IssueCyclomaticComplex,
     IssueMemoryAlloc, IssueSliceGrowth, IssueFunctionLength, IssueImportCycle}

\* the fields of models.Issue the aggregate reads
ScoredIssues == [Type : IssueTypes, Severity : Severities]

\* NewAnalysisResult(): empty list, zero total, empty map, zero score
NewAnalysisResult ==
    [Issues |-> <<>>, TotalIssues |-> 0, IssuesBySeverity |-> <<>>, PerformanceScore |-> 0]

\* MapIncrement with the read of the old count dropped (m[key] = 1)
MapIncrementOverwrite(m, key) ==
    [k \in (DOMAIN m) \cup {key} |-> IF k = key THEN 1 ELSE m[k]]

\* m[key]++ on a Go map: a missing key reads as 0
MapIncrement(m, key) ==
    [k \in (DOMAIN m) \cup {key} |->
        IF k = key THEN (IF key \in DOMAIN m THEN m[key] ELSE 0) + 1 ELSE m[k]]

\* AnalysisResult.AddIssue
AddIssue(ar, issue) ==
    [ar EXCEPT !.Issues = Append(ar.Issues, issue),
               !.TotalIssues = ar.TotalIssues + 1,
               !.IssuesBySeverity = MapIncrement(ar.IssuesBySeverity, SeverityString(issue.Severity))]

\* the first switch of CalculateScore: the base penalty of a severity
SeverityPenalty(sev) ==
    CASE sev = SeverityLow -> 5
      [] sev = SeverityMedium -> 15
      [] sev = SeverityHigh -> 30
      [] sev = SeverityCritical -> 50
      [] OTHER -> 0

\* TypeWeightedPenalty with import cycles weighted like the performance types
TypeWeightedPenaltyCycleAsPerformance(type, basePenalty) ==
    CASE type \in {IssueCyclomaticComplex, IssueFunctionLength} -> (basePenalty * 12) \div 10
      [] type \in {IssueNestedLoops, IssueMemoryAlloc, IssueImportCycle} -> (basePenalty * 15) \div 10
      [] OTHER -> basePenalty

\* the second switch: int(float64(basePenalty) * m) for m in 1.2, 1.5, 1.8; the
\* products of the base penalties 0, 5, 15, 30, 50 are exact in tenths, so the
\* truncating conversion is the integer quotient
TypeWeightedPenalty(type, basePenalty) ==
    CASE type \in {IssueCyclomaticComplex, IssueFunctionLength} -> (basePenalty * 12) \div 10
      [] type \in {IssueNestedLoops, IssueMemoryAlloc} -> (basePenalty * 15) \div 10
      [] type = IssueImportCycle -> (basePenalty * 18) \div 10
      [] OTHER -> basePenalty

\* TotalPenalty with "penalty = basePenalty" in place of "penalty += basePenalty"
TotalPenaltyLastOnly(issues) ==
    IF issues = <<>> THEN 0
    ELSE TypeWeightedPenalty(issues[Len(issues)].Type,
                             SeverityPenalty(issues[Len(issues)].Severity))

RECURSIVE TotalPenalty(_)
\* the loop of CalculateScore over ar.Issues
TotalPenalty(issues) ==
    IF issues = <<>> THEN 0
    ELSE TotalPenalty(SubSeq(issues, 1, Len(issues) - 1))
         + TypeWeightedPenalty(issues[Len(issues)].Type,
                               SeverityPenalty(issues[Len(issues)].Severity))

Max(a, b) == IF a >= b THEN a ELSE b

\* ClampScore without the lower clamp
ClampScoreUnclamped(penalty) == 100 - penalty

\* score := max(100-penalty, 0)
ClampScore(penalty) == Max(100 - penalty, 0)

\* AnalysisResult.CalculateScore
CalculateScore(ar) ==
    IF ar.TotalIssues = 0
    THEN [ar EXCEPT !.PerformanceScore = 100]
    ELSE [ar EXCEPT !.PerformanceScore = ClampScore(TotalPenalty(ar.Issues))]

----------------------------------------------------------------------------
(* The aggregate as a state machine: a caller adds findings and recomputes *)
(* the score, in any order.                                                *)

\* the state of a component that takes no part in a specification
IdleScore == result = NewAnalysisResult /\ scoreState = "never" /\ lastScore = -1
IdleComplexity == cxConfig = Nil /\ cxFn = Nil /\ cxCount = 0 /\ cxIssues = <<>>
IdleImportCycle ==
    /\ icConfig = Nil
    /\ icPackages = <<>>
    /\ icFiles = <<>>
    /\ icNext = 1
    /\ icIssues = <<>>
    /\ icRuns = <<>>
IdleNestedLoops ==
    /\ nlConfig = Nil
    /\ nlFile = Nil
    /\ nlContext = <<>>
    /\ nlPhase = "parsed"
    /\ nlIssues = <<>>
IdleStringConcat == scConfig = Nil /\ scFile = Nil /\ scDone = FALSE /\ scIssues = <<>>
IdleMemoryAlloc == maConfig = Nil /\ maFile = Nil /\ maDone = FALSE /\ maIssues = <<>>
IdleDataStructure == dsConfig = Nil /\ dsFile = Nil /\ dsDone = FALSE /\ dsIssues = <<>>
IdleDebouncer ==
    /\ dbEvents = <<>>
    /\ dbTimer = 0
    /\ dbTimers = <<>>
    /\ dbMutex = 0
    /\ dbStopChan = "open"
    /\ dbWatcher = "open"
    /\ dbLoop = "select"
    /\ dbEvent = Nil
    /\ dbChangedFiles = {}
    /\ dbMain = "waiting"
    /\ dbReceived = 0
    /\ dbTrace = <<>>
IdleAnalyzer ==
    /\ anConfig = Nil
    /\ anDetectors = <<>>
    /\ anFiles = <<>>
    /\ anIssues = <<>>
    /\ anPhase = "new"
    /\ anReport = <<>>

IdleFunctionLength == flConfig = Nil /\ flFile = Nil /\ flDone = FALSE /\ flIssues = <<>>
IdleSliceGrowth == sgConfig = Nil /\ sgFile = <<>> /\ sgDone = FALSE /\ sgIssues = <<>>
IdleFindCycles == fcPackages = <<>> /\ fcCycles = <<>> /\ fcDone = FALSE
IdleLoopTracking == ltDetector = Nil /\ ltFile = <<>> /\ ltVisits = <<>> /\ ltFinal = Nil /\ ltDone = FALSE
\* per component: the variables of all the other components, and their idle state
OtherThanScore == <<cxVars, icVars, nlVars, scVars, maVars, anVars, dbVars, dsVars, flVars, sgVars, fcVars, ltVars>>
OthersIdleScore ==
    /\ IdleComplexity
    /\ IdleImportCycle
    /\ IdleNestedLoops
    /\ IdleStringConcat
    /\ IdleMemoryAlloc
    /\ IdleAnalyzer
    /\ IdleDebouncer
    /\ IdleDataStructure
    /\ IdleFunctionLength
    /\ IdleSliceGrowth
    /\ IdleFindCycles
    /\ IdleLoopTracking
OtherThanComplexity == <<scoreVars, icVars, nlVars, scVars, maVars, anVars, dbVars, dsVars, flVars, sgVars, fcVars, ltVars>>
OthersIdleComplexity ==
    /\ IdleScore
    /\ IdleImportCycle
    /\ IdleNestedLoops
    /\ IdleStringConcat
    /\ IdleMemoryAlloc
    /\ IdleAnalyzer
    /\ IdleDebouncer
    /\ IdleDataStructure
    /\ IdleFunctionLength
    /\ IdleSliceGrowth
    /\ IdleFindCycles
    /\ IdleLoopTracking
OtherThanImportCycle == <<scoreVars, cxVars, nlVars, scVars, maVars, anVars, dbVars, dsVars, flVars, sgVars, fcVars, ltVars>>
OthersIdleImportCycle ==
    /\ IdleScore
    /\ IdleComplexity
    /\ IdleNestedLoops
    /\ IdleStringConcat
    /\ IdleMemoryAlloc
    /\ IdleAnalyzer
    /\ IdleDebouncer
    /\ IdleDataStructure
    /\ IdleFunctionLength
    /\ IdleSliceGrowth
    /\ IdleFindCycles
    /\ IdleLoopTracking
OtherThanNestedLoops == <<scoreVars, cxVars, icVars, scVars, maVars, anVars, dbVars, dsVars, flVars, sgVars, fcVars, ltVars>>
OthersIdleNestedLoops ==
    /\ IdleScore
    /\ IdleComplexity
    /\ IdleImportCycle
    /\ IdleStringConcat
    /\ IdleMemoryAlloc
    /\ IdleAnalyzer
    /\ IdleDebouncer
    /\ IdleDataStructure
    /\ IdleFunctionLength
    /\ IdleSliceGrowth
    /\ IdleFindCycles
    /\ IdleLoopTracking
OtherThanStringConcat == <<scoreVars, cxVars, icVars, nlVars, maVars, anVars, dbVars, dsVars, flVars, sgVars, fcVars, ltVars>>
OthersIdleStringConcat ==
    /\ IdleScore
    /\ IdleComplexity
    /\ IdleImportCycle
    /\ IdleNestedLoops
    /\ IdleMemoryAlloc
    /\ IdleAnalyzer
    /\ IdleDebouncer
    /\ IdleDataStructure
    /\ IdleFunctionLength
    /\ IdleSliceGrowth
    /\ IdleFindCycles
    /\ IdleLoopTracking
OtherThanMemoryAlloc == <<scoreVars, cxVars, icVars, nlVars, scVars, anVars, dbVars, dsVars, flVars, sgVars, fcVars, ltVars>>
OthersIdleMemoryAlloc ==
    /\ IdleScore
    /\ IdleComplexity
    /\ IdleImportCycle
    /\ IdleNestedLoops
    /\ IdleStringConcat
    /\ IdleAnalyzer
    /\ IdleDebouncer
    /\ IdleDataStructure
    /\ IdleFunctionLength
    /\ IdleSliceGrowth
    /\ IdleFindCycles
    /\ IdleLoopTracking
OtherThanAnalyzer == <<scoreVars, cxVars, icVars, nlVars, scVars, maVars, dbVars, dsVars, flVars, sgVars, fcVars, ltVars>>
OthersIdleAnalyzer ==
    /\ IdleScore
    /\ IdleComplexity
    /\ IdleImportCycle
    /\ IdleNestedLoops
    /\ IdleStringConcat
    /\ IdleMemoryAlloc
    /\ IdleDebouncer
    /\ IdleDataStructure
    /\ IdleFunctionLength
    /\ IdleSliceGrowth
    /\ IdleFindCycles
    /\ IdleLoopTracking
OtherThanDebouncer == <<scoreVars, cxVars, icVars, nlVars, scVars, maVars, anVars, dsVars, flVars, sgVars, fcVars, ltVars>>
OthersIdleDebouncer ==
    /\ IdleScore
    /\ IdleComplexity
    /\ IdleImportCycle
    /\ IdleNestedLoops
    /\ IdleStringConcat
    /\ IdleMemoryAlloc
    /\ IdleAnalyzer
    /\ IdleDataStructure
    /\ IdleFunctionLength
    /\ IdleSliceGrowth
    /\ IdleFindCycles
    /\ IdleLoopTracking
OtherThanDataStructure == <<scoreVars, cxVars, icVars, nlVars, scVars, maVars, anVars, dbVars, flVars, sgVars, fcVars, ltVars>>
OthersIdleDataStructure ==
    /\ IdleScore
    /\ IdleComplexity
    /\ IdleImportCycle
    /\ IdleNestedLoops
    /\ IdleStringConcat
    /\ IdleMemoryAlloc
    /\ IdleAnalyzer
    /\ IdleDebouncer
    /\ IdleFunctionLength
    /\ IdleSliceGrowth
    /\ IdleFindCycles
    /\ IdleLoopTracking
OtherThanFunctionLength == <<scoreVars, cxVars, icVars, nlVars, scVars, maVars, anVars, dbVars, dsVars, sgVars, fcVars, ltVars>>
OthersIdleFunctionLength ==
    /\ IdleScore
    /\ IdleComplexity
    /\ IdleImportCycle
    /\ IdleNestedLoops
    /\ IdleStringConcat
    /\ IdleMemoryAlloc
    /\ IdleAnalyzer
    /\ IdleDebouncer
    /\ IdleDataStructure
    /\ IdleSliceGrowth
    /\ IdleFindCycles
    /\ IdleLoopTracking
OtherThanSliceGrowth == <<scoreVars, cxVars, icVars, nlVars, scVars, maVars, anVars, dbVars, dsVars, flVars, fcVars, ltVars>>
OthersIdleSliceGrowth ==
    /\ IdleScore
    /\ IdleComplexity
    /\ IdleImportCycle
    /\ IdleNestedLoops
    /\ IdleStringConcat
    /\ IdleMemoryAlloc
    /\ IdleAnalyzer
    /\ IdleDebouncer
    /\ IdleDataStructure
    /\ IdleFunctionLength
    /\ IdleFindCycles
    /\ IdleLoopTracking
OtherThanFindCycles == <<scoreVars, cxVars, icVars, nlVars, scVars, maVars, anVars, dbVars, dsVars, flVars, sgVars, ltVars>>
OthersIdleFindCycles ==
    /\ IdleScore
    /\ IdleComplexity
    /\ IdleImportCycle
    /\ IdleNestedLoops
    /\ IdleStringConcat
    /\ IdleMemoryAlloc
    /\ IdleAnalyzer
    /\ IdleDebouncer
    /\ IdleDataStructure
    /\ IdleFunctionLength
    /\ IdleSliceGrowth
    /\ IdleLoopTracking
OtherThanLoopTracking == <<scoreVars, cxVars, icVars, nlVars, scVars, maVars, anVars, dbVars, dsVars, flVars, sgVars, fcVars>>
OthersIdleLoopTracking ==
    /\ IdleScore
    /\ IdleComplexity
    /\ IdleImportCycle
    /\ IdleNestedLoops
    /\ IdleStringConcat
    /\ IdleMemoryAlloc
    /\ IdleAnalyzer
    /\ IdleDebouncer
    /\ IdleDataStructure
    /\ IdleFunctionLength
    /\ IdleSliceGrowth
    /\ IdleFindCycles

InitScore ==
    /\ result = NewAnalysisResult
    /\ scoreState = "never"
    /\ lastScore = -1
    /\ OthersIdleScore

DoAddIssue ==
    /\ Len(result.Issues) < MaxIssues
    /\ \E issue \in ScoredIssues : result' = AddIssue(result, issue)
    /\ scoreState' = IF scoreState = "never" THEN "never" ELSE "stale"
    /\ UNCHANGED <<lastScore, OtherThanScore>>

DoCalculateScore ==
    /\ result' = CalculateScore(result)
    /\ scoreState' = "fresh"
    /\ lastScore' = IF scoreState = "never" THEN -1 ELSE result.PerformanceScore
    /\ UNCHANGED OtherThanScore

NextScore == DoAddIssue \/ DoCalculateScore

SpecScore == InitScore /\ [][NextScore]_vars

----------------------------------------------------------------------------
(* Claims about the aggregate *)

RECURSIVE SumValues(_)
SumValues(m) ==
    IF DOMAIN m = {} THEN 0
    ELSE LET k == CHOOSE x \in DOMAIN m : TRUE
         IN m[k] + SumValues([j \in (DOMAIN m) \ {k} |-> m[j]])

\* C1: after any sequence of AddIssue calls on a new result, TotalIssues equals
\* len(Issues) and equals the sum of the values of IssuesBySeverity.
C1_TotalMatchesCounts ==
    /\ result.TotalIssues = Len(result.Issues)
    /\ result.TotalIssues = SumValues(result.IssuesBySeverity)

C1_Witness ==
    /\ Len(result.Issues) = 2
    /\ Cardinality(DOMAIN result.IssuesBySeverity) = 1
    /\ result.TotalIssues = 2

\* C2: whatever the findings, the score CalculateScore stores lies in 0..100, and
\* it is exactly 100 when there is no finding.
C2_ScoreInRange ==
    scoreState = "fresh" =>
        /\ result.PerformanceScore >= 0
        /\ result.PerformanceScore <= 100
        /\ (result.Issues = <<>> => result.PerformanceScore = 100)

\* a scored result whose penalties exceed 100, so the clamp decides the score
C2_Witness ==
    /\ scoreState = "fresh"
    /\ TotalPenalty(result.Issues) > 100
    /\ result.PerformanceScore = 0

\* C3: the score never rises as findings are added: each recomputation over a
\* longer list stores a score no greater than the one stored before.
C3_ScoreMonotone ==
    [][(lastScore' # -1) => result'.PerformanceScore <= lastScore']_vars

\* the score was recomputed after a finding was added and it went down
C3_Witness ==
    /\ scoreState = "fresh"
    /\ lastScore # -1
    /\ Len(result.Issues) >= 1
    /\ result.PerformanceScore < lastScore

\* C4: a result holding exactly one finding, Critical and of type import_cycle,
\* scores 10.
C4_CriticalCycleScoresTen ==
    (scoreState = "fresh" /\ result.Issues = <<[Type |-> IssueImportCycle, Severity |-> SeverityCritical]>>)
        => result.PerformanceScore = 10

C4_Witness ==
    /\ scoreState = "fresh"
    /\ result.Issues = <<[Type |-> IssueImportCycle, Severity |-> SeverityCritical]>>
    /\ result.PerformanceScore = 10

----------------------------------------------------------------------------
(* Syntax trees (go/ast). A node is a record: its kind (the Go type of the  *)
(* node), a tag (the operator of a BinaryExpr, "default" for a clause with  *)
(* a nil List, the name of an Ident) and its children in the order ast.Walk *)
(* and ast.Inspect visit them.                                              *)

Node(kind, tag, kids) == [kind |-> kind, tag |-> tag, kids |-> kids]

Ident(name) == Node("Ident", name, <<>>)
BinaryExpr(op, x, y) == Node("BinaryExpr", op, <<x, y>>)
BlockStmt(stmts) == Node("BlockStmt", "", stmts)
ExprStmt(x) == Node("ExprStmt", "", <<x>>)
\* an if statement: Cond, Body and, when there is one, Else (a block or an if)
IfStmt(cond, body) == Node("IfStmt", "", <<cond, BlockStmt(body)>>)
IfElseStmt(cond, body, else) == Node("IfStmt", "", <<cond, BlockStmt(body), else>>)
\* IfStmt.Else, Nil when the statement has no else
IfElse(n) == IF Len(n.kids) = 3 THEN n.kids[3] ELSE Nil
CaseClause(tag, body) == Node("CaseClause", tag, body)
CommClause(tag, body) == Node("CommClause", tag, body)
SwitchStmt(clauses) == Node("SwitchStmt", "", <<BlockStmt(clauses)>>)
TypeSwitchStmt(clauses) == Node("TypeSwitchStmt", "", <<BlockStmt(clauses)>>)
SelectStmt(clauses) == Node("SelectStmt", "", <<BlockStmt(clauses)>>)
FuncLit(body) == Node("FuncLit", "", <<BlockStmt(body)>>)
BasicLit(value) == Node("BasicLit", value, <<>>)
CallExpr(fun, args) == Node("CallExpr", "", <<fun>> \o args)
SelectorExpr(x, sel) == Node("SelectorExpr", sel, <<x>>)
BranchStmt(tok) == Node("BranchStmt", tok, <<>>)
ReturnStmt(results) == Node("ReturnStmt", "", results)
\* a for statement: Cond when there is one (tag "cond"), and Body; Init and Post
\* hold no statement any modelled visitor looks at and are left out
ForStmt(cond, body) ==
    Node("ForStmt", IF cond = Nil THEN "" ELSE "cond",
         (IF cond = Nil THEN <<>> ELSE <<cond>>) \o <<BlockStmt(body)>>)
\* ForStmt.Cond, Nil when the statement has no condition
ForCond(n) == IF n.tag = "cond" THEN n.kids[1] ELSE Nil
\* a range statement: X and Body
RangeStmt(x, body) == Node("RangeStmt", "", <<x, BlockStmt(body)>>)
\* an assignment: Lhs and Rhs are expression lists, the tag is Tok
AssignStmt(lhs, tok, rhs) ==
    [kind |-> "AssignStmt", tag |-> tok, kids |-> lhs \o rhs, Lhs |-> lhs, Rhs |-> rhs]
\* an array or slice type: Len (Nil for a slice) and Elt; a map type: Key, Value
ArrayType(len, elt) ==
    [kind |-> "ArrayType", tag |-> "", kids |-> (IF len = Nil THEN <<>> ELSE <<len>>) \o <<elt>>,
     Len |-> len, Elt |-> elt]
MapType(key, value) == Node("MapType", "", <<key, value>>)
\* CallExpr.Fun and CallExpr.Args
CallFun(call) == call.kids[1]
CallArgs(call) == Tail(call.kids)
\* a node is identified by its position: the path of child indices that leads
\* to it from the body of its function
ChildPos(pos, i) == Append(pos, i)
\* getLoopBody (detectors/nested_loops.go): Body.List of a loop, and the
\* position of its j-th statement
getLoopBody(n) == n.kids[Len(n.kids)].kids
LoopBodyPos(n, pos, j) == ChildPos(ChildPos(pos, Len(n.kids)), j)
\* the walks over a tree thread the visitor through the children in source
\* order; the visitor left by one child ("after") is computed before the next
\* child is walked
\* a function declaration; Body is Nil for a declaration without a body
FuncDecl(body) == [kind |-> "FuncDecl", Body |-> body]

----------------------------------------------------------------------------
(* internal/analyzer/detectors/complexity.go *)

\* the statements the generated function bodies are built from
ComplexityStmts ==
    LET x == Ident("x")
        y == Ident("y")
    IN { IfStmt(x, <<>>),
         IfElseStmt(x, <<>>, BlockStmt(<<>>)),
         IfElseStmt(x, <<>>, IfStmt(y, <<>>)),
         IfElseStmt(x, <<>>, IfElseStmt(y, <<>>, BlockStmt(<<>>))),
         ForStmt(Nil, <<>>),
         RangeStmt(x, <<IfStmt(BinaryExpr("&&", x, y), <<>>)>>),
         SwitchStmt(<<CaseClause("case", <<>>), CaseClause("default", <<>>)>>),
         TypeSwitchStmt(<<CaseClause("case", <<>>), CaseClause("case", <<>>)>>),
         SelectStmt(<<CommClause("case", <<>>), CommClause("default", <<>>)>>),
         ExprStmt(BinaryExpr("||", BinaryExpr("&&", x, y), x)),
         ExprStmt(BinaryExpr("+", x, y)),
         ExprStmt(FuncLit(<<IfStmt(BinaryExpr("&&", x, y), <<>>)>>)) }

\* n copies of a statement
Repeat(stmt, n) == [i \in 1..n |-> stmt]

\* the sequences of at most n elements of S
RECURSIVE SeqsUpTo(_, _)
SeqsUpTo(S, n) ==
    IF n = 0 THEN {<<>>}
    ELSE LET shorter == SeqsUpTo(S, n - 1)
         IN shorter \cup {Append(q, e) : q \in {r \in shorter : Len(r) = n - 1}, e \in S}

\* the function declarations of the analysed files: one without a body, the
\* short bodies, and bodies of 1..MaxPadding plain if statements
FuncDecls ==
    {FuncDecl(Nil)}
    \cup {FuncDecl(BlockStmt(b)) : b \in SeqsUpTo(ComplexityStmts, MaxBodyLen)}
    \cup {FuncDecl(BlockStmt(Repeat(IfStmt(Ident("x"), <<>>), n))) : n \in 1..MaxPadding}

\* Rules.Complexity.CyclomaticComplexity of a configuration that passed
\* Config.Validate: ascending thresholds
ThresholdConfig(m, h, c) ==
    [Enabled |-> TRUE, MediumThreshold |-> m, HighThreshold |-> h, CriticalThreshold |-> c]

\* ComplexityDetector.config as the constructors leave it: nil
\* (NewComplexityDetector), or a configuration whose rule is enabled
\* (NewAnalyzerWithConfig builds the detector only then): DefaultConfig and two
\* user configurations
ComplexityConfigs ==
    {Nil, ThresholdConfig(10, 15, 25), ThresholdConfig(2, 4, 6), ThresholdConfig(1, 2, 3)}

RECURSIVE InspectComplexity(_)
\* the function literal passed to ast.Inspect in calculateComplexity, summed
\* over the subtree of n: what n adds, and its children unless n is a FuncLit
InspectComplexity(n) ==
    LET own ==
            CASE n.kind = "IfStmt" ->
                    1 + (IF IfElse(n) # Nil /\ IfElse(n).kind # "IfStmt" THEN 1 ELSE 0)
              [] n.kind \in {"ForStmt", "RangeStmt"} -> 1
              [] n.kind \in {"TypeSwitchStmt", "SwitchStmt"} -> 1
              [] n.kind = "CaseClause" -> IF n.tag # "default" THEN 1 ELSE 0
              [] n.kind = "CommClause" -> 1
              [] n.kind = "BinaryExpr" -> IF n.tag \in {"&&", "||"} THEN 1 ELSE 0
              [] OTHER -> 0
        RECURSIVE SumKids(_)
        SumKids(i) ==
            IF i > Len(n.kids) THEN 0 ELSE InspectComplexity(n.kids[i]) + SumKids(i + 1)
    IN IF n.kind = "FuncLit" THEN own ELSE own + SumKids(1)

\* calculateComplexity starting from 0
calculateComplexityNoBase(body) == InspectComplexity(body)

\* complexityVisitor.calculateComplexity
calculateComplexity(body) == 1 + InspectComplexity(body)

\* Visit reporting at the threshold (>= in place of >)
ReportsComplexityAtThreshold(complexity, threshold) == complexity >= threshold

\* "if complexity > threshold" in complexityVisitor.Visit
ReportsComplexity(complexity, threshold) == complexity > threshold

\* the threshold of complexityVisitor.Visit: 10 unless a configuration enables the rule
VisitThreshold(config) ==
    IF config # Nil /\ config.Enabled THEN config.MediumThreshold ELSE 10

\* complexityVisitor.calculateSeverity
calculateSeverity(config, complexity) ==
    LET on == config # Nil /\ config.Enabled
        mediumThreshold == IF on THEN config.MediumThreshold ELSE 10
        highThreshold == IF on THEN config.HighThreshold ELSE 15
        criticalThreshold == IF on THEN config.CriticalThreshold ELSE 25
    IN CASE complexity <= mediumThreshold -> SeverityMedium
         [] complexity <= highThreshold -> SeverityHigh
         [] complexity <= criticalThreshold -> SeverityCritical
         [] OTHER -> SeverityCritical

\* complexityVisitor.createComplexityIssue: the finding of the function declared
\* at `line`
createComplexityIssue(config, issues, line, complexity) ==
    Append(issues, [Type |-> IssueCyclomaticComplex,
                    Severity |-> calculateSeverity(config, complexity),
                    Line |-> line,
                    Complexity |-> complexity])

\* complexityVisitor.Visit on a FuncDecl node
complexityVisit(config, issues, fn, line) ==
    IF fn.Body # Nil
    THEN LET complexity == calculateComplexity(fn.Body)
         IN IF ReportsComplexity(complexity, VisitThreshold(config))
            THEN createComplexityIssue(config, issues, line, complexity)
            ELSE issues
    ELSE issues

\* ComplexityDetector.Detect: a new visitor, then ast.Walk passes it the
\* function declarations of the file one after the other
InitComplexity ==
    /\ cxConfig \in ComplexityConfigs
    /\ cxFn = Nil
    /\ cxCount = 0
    /\ cxIssues = <<>>
    /\ OthersIdleComplexity

VisitFuncDecl ==
    /\ cxCount < MaxFuncs
    /\ \E fn \in FuncDecls :
          /\ cxFn' = fn
          /\ cxIssues' = complexityVisit(cxConfig, cxIssues, fn, cxCount + 1)
    /\ cxCount' = cxCount + 1
    /\ UNCHANGED <<cxConfig, OtherThanComplexity>>

NextComplexity == VisitFuncDecl

SpecComplexity == InitComplexity /\ [][NextComplexity]_vars

----------------------------------------------------------------------------
(* Claims about the complexity detector *)

\* the findings among `issues` reported for the declaration at `line`
IssuesAtLine(issues, line) == {i \in DOMAIN issues : issues[i].Line = line}

\* the medium threshold in force: 10 without a configuration
MediumThresholdInForce == IF cxConfig = Nil THEN 10 ELSE cxConfig.MediumThreshold
HighThresholdInForce == IF cxConfig = Nil THEN 15 ELSE cxConfig.HighThreshold
CriticalThresholdInForce == IF cxConfig = Nil THEN 25 ELSE cxConfig.CriticalThreshold

\* C5: a function declaration with a body gets a complexity finding if and only
\* if its cyclomatic complexity is strictly greater than the medium threshold
\* (none at the threshold), and never more than one.
C5_ReportIffAboveThreshold ==
    /\ \A line \in 1..MaxFuncs + 1 : Cardinality(IssuesAtLine(cxIssues, line)) <= 1
    /\ (cxCount > 0 /\ cxFn.Body # Nil) =>
          (IssuesAtLine(cxIssues, cxCount) # {}
             <=> calculateComplexity(cxFn.Body) > MediumThresholdInForce)

\* a visited function whose complexity equals the threshold, with no finding
C5_Witness ==
    /\ cxCount > 0
    /\ cxFn.Body # Nil
    /\ calculateComplexity(cxFn.Body) = MediumThresholdInForce
    /\ IssuesAtLine(cxIssues, cxCount) = {}

\* C6: a reported complexity c is Medium when medium < c <= high, High when
\* high < c <= critical and Critical when c > critical (16 under the defaults
\* 10/15/25 is HIGH).
C6_SeverityTiers ==
    \A i \in DOMAIN cxIssues :
        LET c == cxIssues[i].Complexity
        IN cxIssues[i].Severity =
             CASE c <= HighThresholdInForce -> SeverityMedium
               [] c <= CriticalThresholdInForce -> SeverityHigh
               [] OTHER -> SeverityCritical

----------------------------------------------------------------------------
(* The import cycle detector (ImportCycleDetector, importCycleVisitor) *)

\* the package directories of the analysed tree
PkgNames == <<"a", "b", "c", "d", "e_test", "f">>
Pkgs == {PkgNames[i] : i \in 1..NumPkgs}

\* an import spec: "./<dir>" (form "rel") or a standard-library path such as
\* "fmt" (form "std")
RelImport(dir) == [form |-> "rel", path |-> dir]
StdImport(name) == [form |-> "std", path |-> name]
\* the import path as written in the file
ImportPathString(imp) == IF imp.form = "rel" THEN "./" \o imp.path ELSE imp.path

Imports == {RelImport(p) : p \in Pkgs} \cup {StdImport("fmt")}

\* a parsed file: its directory, and its import declarations (GenDecl nodes with
\* Tok == IMPORT), each a list of import specs
SourceFile(dir, importDecls) == [dir |-> dir, importDecls |-> importDecls]

\* the import declarations of the generated files: none, or one declaration of
\* one import spec
ImportDeclLists == {<<>>} \cup {<< <<imp>> >> : imp \in Imports}

\* the file lists given to AnalyzeFiles: one file per directory, the k-th file
\* in the k-th directory (directory names are interchangeable, so this covers
\* every order of analysis)
FileLists ==
    UNION {[1..n -> ImportDeclLists] : n \in 1..NumPkgs}

FilesOf(decls) == [k \in DOMAIN decls |-> SourceFile(PkgNames[k], decls[k])]

\* Rules.Quality.ImportCycles with the rule enabled (NewAnalyzerWithConfig builds
\* the detector only then); the other fields as in DefaultConfig
ImportCycleConfig(maxLen) ==
    [Enabled |-> TRUE, MaxCycleLength |-> maxLen, IgnoreTestPackages |-> TRUE,
     IgnoreVendor |-> TRUE, ExcludePackages |-> {}]

\* DefaultConfig (5) and two user configurations
ImportCycleConfigs == {ImportCycleConfig(5), ImportCycleConfig(3), ImportCycleConfig(1)}

\* importCycleVisitor.isThirdPartyOrLocalImport: excluded and vendor paths and
\* the standard library are dropped; what is left must contain a "." (every
\* "./<dir>" does)
isThirdPartyOrLocalImport(config, imp) ==
    LET on == config # Nil /\ config.Enabled
    IN /\ ~(on /\ imp.form = "rel" /\ ImportPathString(imp) \in config.ExcludePackages)
       /\ imp.form # "std"
       /\ imp.form = "rel"

\* importCycleVisitor.getPackagePathFromFile: path.Dir of the file name, "main"
\* for "."
getPackagePathFromFile(file) == IF file.dir = "." THEN "main" ELSE file.dir

\* normalizeImportPath leaving the import path as written
normalizeImportPathAsWritten(imp) == ImportPathString(imp)

\* ImportCycleDetector.normalizeImportPath: path.Clean of "./<dir>" is "<dir>"
normalizeImportPath(imp) ==
    IF imp.form = "rel" THEN imp.path ELSE ImportPathString(imp)

\* importCycleVisitor.processImports on one import declaration: the imports that
\* pass the filter replace the package's entry, when there are any
processImports(config, packages, file, line, decl) ==
    LET imports == SelectSeq(decl, LAMBDA imp : isThirdPartyOrLocalImport(config, imp))
        packagePath == getPackagePathFromFile(file)
    IN IF Len(imports) > 0
       THEN [k \in (DOMAIN packages) \cup {packagePath} |->
               IF k = packagePath
               THEN [filePath |-> file.dir, imports |-> imports, line |-> line]
               ELSE packages[k]]
       ELSE packages

RECURSIVE walkImports(_, _, _, _)
\* ast.Walk with importCycleVisitor.Visit: processImports on every import
\* declaration of the file, in source order
walkImports(config, packages, file, i) ==
    IF i > Len(file.importDecls) THEN packages
    ELSE walkImports(config,
                     processImports(config, packages, file, i, file.importDecls[i]),
                     file, i + 1)

\* a nil []string
NoCycle == <<>>

\* extractCycle returning the whole path, closed by cycleStart
extractCycleWholePath(path, cycleStart) == Append(path, cycleStart)

\* ImportCycleDetector.extractCycle: the path from the first occurrence of
\* cycleStart, closed by cycleStart
extractCycle(path, cycleStart) ==
    IF \E i \in DOMAIN path : path[i] = cycleStart
    THEN LET i == CHOOSE j \in DOMAIN path :
                      path[j] = cycleStart /\ \A k \in 1..j - 1 : path[k] # cycleStart
         IN Append(SubSeq(path, i, Len(path)), cycleStart)
    ELSE path

RECURSIVE dfs(_, _, _, _, _)
RECURSIVE dfsImports(_, _, _, _, _, _)
\* ImportCycleDetector.dfs; visited and recStack are the sets of keys mapped to
\* true. The result is the returned cycle and the two maps as the call leaves them
dfs(packages, packagePath, visited, recStack, path) ==
    LET visited1 == visited \cup {packagePath}
        recStack1 == recStack \cup {packagePath}
        path1 == Append(path, packagePath)
    IN IF packagePath \notin DOMAIN packages
       THEN [cycle |-> NoCycle, visited |-> visited1, recStack |-> recStack1 \ {packagePath}]
       ELSE dfsImports(packages, packagePath, 1, visited1, recStack1, path1)

\* the loop of dfs over pkg.imports, from the i-th import on
dfsImports(packages, packagePath, i, visited, recStack, path) ==
    IF i > Len(packages[packagePath].imports)
    THEN [cycle |-> NoCycle, visited |-> visited, recStack |-> recStack \ {packagePath}]
    ELSE LET normalizedPath == normalizeImportPath(packages[packagePath].imports[i])
         IN IF normalizedPath \notin visited
            THEN LET r == dfs(packages, normalizedPath, visited, recStack, path)
                 IN IF r.cycle # NoCycle
                    THEN [cycle |-> r.cycle, visited |-> r.visited,
                          recStack |-> r.recStack \ {packagePath}]
                    ELSE dfsImports(packages, packagePath, i + 1, r.visited, r.recStack, path)
            ELSE IF normalizedPath \in recStack
                 THEN [cycle |-> extractCycle(path, normalizedPath), visited |-> visited,
                       recStack |-> recStack \ {packagePath}]
                 ELSE dfsImports(packages, packagePath, i + 1, visited, recStack, path)

RECURSIVE findCyclesFrom(_, _, _, _)
\* the loop of findCycles: "for packagePath := range d.packages" visits the keys
\* in an order Go leaves unspecified, so every not yet visited key may be the
\* next root. The result is the set of cycle lists the loop can return
findCyclesFrom(packages, visited, recStack, cycles) ==
    LET todo == (DOMAIN packages) \ visited
    IN IF todo = {} THEN {cycles}
       ELSE UNION { LET r == dfs(packages, root, visited, recStack, <<>>)
                    IN findCyclesFrom(packages, r.visited, r.recStack,
                                      IF r.cycle # NoCycle THEN Append(cycles, r.cycle)
                                      ELSE cycles)
                    : root \in todo }

\* ImportCycleDetector.findCycles
findCycles(packages) == findCyclesFrom(packages, {}, {}, <<>>)

\* strings.Contains(pkg, "_test") || strings.Contains(pkg, "/test") over PkgNames
IsTestPackage(pkg) == pkg \in {"e_test"}

\* importCycleVisitor.calculateCycleSeverity; the ratio cycleLength/maxCycleLength
\* is compared in tenths (the two agree on the float64 quotients of the lengths
\* and maxima modelled)
calculateCycleSeverity(config, cycleLength) ==
    LET maxCycleLength ==
            IF config # Nil /\ config.Enabled THEN config.MaxCycleLength ELSE 5
    IN CASE 10 * cycleLength >= 15 * maxCycleLength -> SeverityCritical
         [] 10 * cycleLength >= 12 * maxCycleLength -> SeverityHigh
         [] cycleLength >= maxCycleLength -> SeverityMedium
         [] OTHER -> SeverityLow

\* importCycleVisitor.createCycleIssue: the visitor's issues after the call
createCycleIssue(config, packages, file, issues, cycle) ==
    LET on == config # Nil /\ config.Enabled
        cycleLen == Len(cycle) - 1
        currentPackage == getPackagePathFromFile(file)
    IN IF Len(cycle) < 2 THEN issues
       ELSE IF on /\ cycleLen <= config.MaxCycleLength THEN issues
       ELSE IF on /\ config.IgnoreTestPackages
                  /\ \E i \in DOMAIN cycle : IsTestPackage(cycle[i]) THEN issues
       ELSE IF ~\E i \in DOMAIN cycle : cycle[i] = currentPackage THEN issues
       ELSE Append(issues, [Type |-> IssueImportCycle,
                            Severity |-> calculateCycleSeverity(config, Len(cycle)),
                            File |-> file.dir,
                            Cycle |-> cycle,
                            CycleLength |-> Len(cycle) - 1])

RECURSIVE createCycleIssues(_, _, _, _, _)
\* the loop of Detect over the cycles findCycles returned
createCycleIssues(config, packages, file, issues, cycles) ==
    IF cycles = <<>> THEN issues
    ELSE createCycleIssues(config, packages, file,
                           createCycleIssue(config, packages, file, issues, cycles[1]),
                           Tail(cycles))

\* the analyser is built with a configuration and the detector with empty maps;
\* AnalyzeFiles is called with a list of files
InitImportCycle ==
    /\ icConfig \in ImportCycleConfigs
    /\ icPackages = <<>>
    /\ \E decls \in FileLists : icFiles = FilesOf(decls)
    /\ icNext = 1
    /\ icIssues = <<>>
    /\ icRuns = <<>>
    /\ OthersIdleImportCycle

\* one round of the loop of AnalyzeFiles: ImportCycleDetector.Detect on the next
\* file (the walk that records its imports, then findCycles and createCycleIssue
\* for every cycle), and AddIssue for every finding it returns
DetectImportCycles ==
    /\ icNext <= Len(icFiles)
    /\ LET file == icFiles[icNext]
           packages == walkImports(icConfig, icPackages, file, 1)
       IN /\ icPackages' = packages
          /\ \E cycles \in findCycles(packages) :
                icIssues' = icIssues \o createCycleIssues(icConfig, packages, file, <<>>, cycles)
    /\ icNext' = icNext + 1
    /\ UNCHANGED <<icConfig, icFiles, icRuns, OtherThanImportCycle>>

NextImportCycle == DetectImportCycles

SpecImportCycle == InitImportCycle /\ [][NextImportCycle]_vars

----------------------------------------------------------------------------
(* Watch mode (runWatchMode, cmd/root.go): runInitialAnalysis and every      *)
(* handleFileChanges call AnalyzeFiles on the same Analyzer, whose import    *)
(* cycle detector keeps its packages map from call to call.                  *)

\* the files of a watched tree: one per directory, importing nothing or one of
\* the directories
WatchFiles ==
    LET dirs == {PkgNames[k] : k \in 1..WatchDirs}
    IN {SourceFile(dir, decls) :
            dir \in dirs, decls \in {<<>>} \cup {<< <<RelImport(p)>> >> : p \in dirs}}

\* the file lists a call of AnalyzeFiles may get: files of distinct directories
\* in any order (all of the tree, or the changed ones)
WatchFileLists ==
    {files \in SeqsUpTo(WatchFiles, WatchDirs) :
        /\ Len(files) >= 1
        /\ \A i, j \in DOMAIN files : i # j => files[i].dir # files[j].dir}

InitWatchRuns ==
    /\ icConfig \in ImportCycleConfigs
    /\ icPackages = <<>>
    /\ icFiles \in WatchFileLists
    /\ icNext = 1
    /\ icIssues = <<>>
    /\ icRuns = <<>>
    /\ OthersIdleImportCycle

\* AnalyzeFiles returns its result after the last file
AnalyzeFilesReturn ==
    /\ icFiles # <<>>
    /\ icNext > Len(icFiles)
    /\ icRuns' = Append(icRuns, [Files |-> icFiles, Issues |-> icIssues])
    /\ icFiles' = <<>>
    /\ icNext' = 1
    /\ icIssues' = <<>>
    /\ UNCHANGED <<icConfig, icPackages, OtherThanImportCycle>>

\* handleFileChanges calls AnalyzeFiles on the same Analyzer with the changed files
AnalyzeFilesAgain ==
    /\ icFiles = <<>>
    /\ Len(icRuns) \in 1..(MaxRuns - 1)
    /\ icFiles' \in WatchFileLists
    /\ UNCHANGED <<icConfig, icPackages, icNext, icIssues, icRuns, OtherThanImportCycle>>

NextWatchRuns == DetectImportCycles \/ AnalyzeFilesReturn \/ AnalyzeFilesAgain

SpecWatchRuns == InitWatchRuns /\ [][NextWatchRuns]_vars

\* what a run reports, whatever package findCycles started a cycle from: per
\* finding its type, severity, file and the packages of its cycle
FindingsOfRun(run) ==
    [i \in DOMAIN run.Issues |->
        <<run.Issues[i].Type, run.Issues[i].Severity, run.Issues[i].File,
          {run.Issues[i].Cycle[k] : k \in DOMAIN run.Issues[i].Cycle}>>]

\* C12: the findings of an AnalyzeFiles call depend on its file set and the
\* configuration only: two calls on the same Analyzer with the same files
\* return the same findings, whatever was analysed in between.
C12_SameFilesSameFindings ==
    \A i, j \in DOMAIN icRuns :
        icRuns[i].Files = icRuns[j].Files =>
            FindingsOfRun(icRuns[i]) = FindingsOfRun(icRuns[j])

----------------------------------------------------------------------------
(* Claims about the import cycle detector *)

\* AnalyzeFiles has handed every file of the run to the detector
ImportRunDone == icNext > Len(icFiles)

\* the elements of a sequence
Range(q) == {q[i] : i \in DOMAIN q}

\* the packages a file imports, by the files themselves
FileImportTargets(file) ==
    {imp.path : imp \in {d[j] : d \in Range(file.importDecls), j \in 1..1} \cap
                          {RelImport(p) : p \in Pkgs}}

\* package p imports package q in some analysed file
ImportEdge(p, q) ==
    \E k \in DOMAIN icFiles : icFiles[k].dir = p /\ q \in FileImportTargets(icFiles[k])

\* the directed cycles of the import graph of the analysed files, each as the
\* list of its distinct members
ImportCyclesOfFiles ==
    {c \in SeqsUpTo(Pkgs, NumPkgs) :
        /\ Len(c) >= 1
        /\ \A i, j \in DOMAIN c : i # j => c[i] # c[j]
        /\ \A i \in DOMAIN c : ImportEdge(c[i], c[(i % Len(c)) + 1])}

\* the findings reported against the file in directory dir for the cycle c
CycleFindings(dir, c) ==
    {i \in DOMAIN icIssues : icIssues[i].File = dir /\ Range(icIssues[i].Cycle) = Range(c)}

\* C7: once every file is analysed, whatever their order, a cycle of at most
\* MaxCycleLength edges has no finding in any file, and a longer cycle has exactly
\* one finding in each analysed file whose package is a member of it.
C7_OneFindingPerMemberFile ==
    ImportRunDone =>
        \A c \in ImportCyclesOfFiles :
            \A k \in DOMAIN icFiles :
                Cardinality(CycleFindings(icFiles[k].dir, c)) =
                    IF Len(c) > icConfig.MaxCycleLength /\ icFiles[k].dir \in Range(c)
                    THEN 1 ELSE 0

\* C8: with L the edge count the gate compares with the maximum M, a finding is
\* Critical if L/M >= 1.5, else High if L/M >= 1.2, else Medium, and never Low.
C8_SeverityByEdgeRatio ==
    \A i \in DOMAIN icIssues :
        LET L == icIssues[i].CycleLength
            M == icConfig.MaxCycleLength
        IN /\ icIssues[i].Severity =
                 CASE 10 * L >= 15 * M -> SeverityCritical
                   [] 10 * L >= 12 * M -> SeverityHigh
                   [] OTHER -> SeverityMedium
           /\ icIssues[i].Severity # SeverityLow

----------------------------------------------------------------------------
(* The loop facts of the analysis context (Analyzer.analyzeLoopPatterns,    *)
(* internal/analyzer/ast_walker.go)                                         *)

\* context.LoopBoundType
BoundUnknown == "unknown"
BoundConstant == "constant"
BoundLinear == "linear"
BoundVariable == "variable"

\* context.LoopInfo
LoopInfo(boundType, estimatedMax, isInnerLoop, hasExit) ==
    [BoundType |-> boundType, EstimatedMax |-> estimatedMax,
     IsInnerLoop |-> isInnerLoop, HasEarlyExit |-> hasExit]

\* AnalysisContext.DataSizes: getVariableFromAssignment returns "" for every
\* expression, so analyzeDataSizes records nothing
DataSizes == <<>>

isConstantExpression(expr) == expr.kind = "BasicLit"

isLenExpression(expr) ==
    expr.kind = "CallExpr" /\ expr.kids[1].kind = "Ident" /\ expr.kids[1].tag = "len"

\* Analyzer.extractConstantInt, on integer literals
extractConstantInt(expr) ==
    IF expr.kind = "BasicLit"
    THEN CASE expr.tag = "0" -> 0
           [] expr.tag = "1" -> 1
           [] expr.tag = "2" -> 2
           [] expr.tag = "5" -> 5
           [] expr.tag = "10" -> 10
           [] expr.tag = "100" -> 100
           [] expr.tag = "1000" -> 1000
           [] OTHER -> -1
    ELSE -1

analyzeLoopBounds(loop) ==
    LET cond == ForCond(loop)
    IN IF cond = Nil THEN BoundUnknown
       ELSE IF cond.kind = "BinaryExpr" /\ isConstantExpression(cond.kids[2])
            THEN BoundConstant
       ELSE IF cond.kind = "BinaryExpr" /\ isLenExpression(cond.kids[2])
            THEN BoundLinear
       ELSE BoundVariable

estimateLoopMax(loop) ==
    LET cond == ForCond(loop)
    IN IF cond = Nil THEN -1
       ELSE IF cond.kind = "BinaryExpr" /\ extractConstantInt(cond.kids[2]) > 0
            THEN extractConstantInt(cond.kids[2])
       ELSE -1

estimateRangeMax(loop) ==
    LET x == loop.kids[1]
    IN IF x.kind = "Ident" /\ x.tag \in DOMAIN DataSizes
       THEN DataSizes[x.tag].EstimatedLen
       ELSE -1

RECURSIVE hasEarlyExit(_)
\* Analyzer.hasEarlyExit: a break or a return anywhere below the node
hasEarlyExit(n) ==
    \/ n.kind = "BranchStmt" /\ n.tag \in {"break", "return"}
    \/ n.kind = "ReturnStmt"
    \/ \E i \in DOMAIN n.kids : hasEarlyExit(n.kids[i])

RECURSIVE inspectLoopPatterns(_, _, _)
\* the function literal analyzeLoopPatterns passes to ast.Inspect, applied to n
\* and then to its subtree; st holds LoopContext and the captured loopDepth,
\* which no branch decrements
inspectLoopPatterns(n, pos, st) ==
    LET depth == st.loopDepth + 1
        info ==
            IF n.kind = "ForStmt"
            THEN LoopInfo(analyzeLoopBounds(n), estimateLoopMax(n), depth > 1, hasEarlyExit(n))
            ELSE LoopInfo(BoundLinear, estimateRangeMax(n), depth > 1, hasEarlyExit(n))
        own ==
            IF n.kind \in {"ForStmt", "RangeStmt"}
            THEN [LoopContext |-> (pos :> info) @@ st.LoopContext, loopDepth |-> depth]
            ELSE st
        RECURSIVE InspectKids(_, _)
        InspectKids(i, acc) ==
            IF i > Len(n.kids) THEN acc
            ELSE CHOOSE r \in {InspectKids(i + 1, after) :
                                 after \in {inspectLoopPatterns(n.kids[i], ChildPos(pos, i), acc)}} : TRUE
    IN InspectKids(1, own)

\* Analyzer.analyzeLoopPatterns on a file of one function declaration
analyzeLoopPatterns(LoopContext, file) ==
    IF file.Body = Nil THEN LoopContext
    ELSE inspectLoopPatterns(file.Body, <<>>,
                             [LoopContext |-> LoopContext, loopDepth |-> 0]).LoopContext

----------------------------------------------------------------------------
(* internal/analyzer/detectors/nested_loops.go *)

\* MaxDepth of Rules.Performance.NestedLoops in DefaultConfig
DefaultConfigMaxDepth == 2
\* maxDepth in nestedLoopVisitor.Visit when no enabled configuration is set
FallbackMaxDepth == 1

\* Rules.Performance.NestedLoops with the rule enabled
NestedLoopConfig(maxDepth) == [Enabled |-> TRUE, MaxDepth |-> maxDepth, IgnoreTest |-> TRUE]

\* NestedLoopDetector.config: nil (NewNestedLoopDetector), DefaultConfig
\* (NewAnalyzer), and two user configurations
NestedLoopConfigs ==
    {Nil, NestedLoopConfig(DefaultConfigMaxDepth), NestedLoopConfig(1), NestedLoopConfig(3)}

\* the loop headers of the generated files: for statements without a
\* condition, with two small and a large literal bound, a variable bound and
\* a len bound
LoopConds ==
    LET i == Ident("i")
    IN {Nil,
        BinaryExpr("<", i, BasicLit("3")),
        BinaryExpr("<", i, BasicLit("10")),
        BinaryExpr("<", i, BasicLit("1000")),
        BinaryExpr("<", i, Ident("n")),
        BinaryExpr("<", i, CallExpr(Ident("len"), <<Ident("xs")>>))}

\* the loop bodies that hold no loop
LoopLeafBodies == {<<>>, <<BranchStmt("break")>>, <<ReturnStmt(<<>>)>>}

RECURSIVE LoopNests(_)
\* the loops nested at most d deep, each body a leaf body or one more loop
LoopNests(d) ==
    IF d = 0 THEN {}
    ELSE LET bodies == LoopLeafBodies \cup {<<l>> : l \in LoopNests(d - 1)}
         IN {ForStmt(c, b) : c \in LoopConds, b \in bodies}
            \cup {RangeStmt(Ident("xs"), b) : b \in bodies}

\* the functions of the analysed files: one loop nest, alone or followed by a
\* second loop with an empty body
LoopFuncDecls ==
    {FuncDecl(BlockStmt(<<l>>)) : l \in LoopNests(MaxLoopDepth)}
    \cup {FuncDecl(BlockStmt(<<l, m>>)) :
            l \in LoopNests(MaxLoopDepth),
            m \in {ForStmt(c, <<>>) : c \in LoopConds} \cup {RangeStmt(Ident("xs"), <<>>)}}

\* maxDepth in nestedLoopVisitor.Visit
VisitMaxDepth(config) ==
    IF config # Nil /\ config.Enabled THEN config.MaxDepth ELSE FallbackMaxDepth

\* nestedLoopVisitor.calculateSeverity
calculateLoopSeverity(loopDepth) ==
    CASE loopDepth = 2 -> SeverityMedium
      [] loopDepth = 3 -> SeverityHigh
      [] OTHER -> SeverityCritical

shouldSkipSmallLoop(loopInfo) ==
    IF loopInfo = Nil THEN FALSE
    ELSE \/ /\ loopInfo.BoundType = BoundConstant
            /\ loopInfo.EstimatedMax > 0
            /\ loopInfo.EstimatedMax <= 10
         \/ loopInfo.HasEarlyExit

\* nestedLoopVisitor.calculateConfidence, in tenths
calculateConfidence(loopInfo, hasInfo, loopDepth) ==
    IF ~hasInfo THEN 5
    ELSE LET base == 8
             bound == IF loopInfo.BoundType = BoundVariable \/ loopInfo.EstimatedMax > 100
                      THEN base + 2 ELSE base
             exit == IF loopInfo.HasEarlyExit THEN bound - 3 ELSE bound
             deep == IF loopDepth >= 3 THEN exit + 1 ELSE exit
         IN IF deep < 10 THEN deep ELSE 10

calculateSeverityWithContext(loopInfo, hasInfo, loopDepth) ==
    LET baseSeverity == calculateLoopSeverity(loopDepth)
    IN IF ~hasInfo THEN baseSeverity
       ELSE IF /\ loopInfo.BoundType = BoundConstant /\ loopInfo.EstimatedMax <= 50
               /\ baseSeverity = SeverityCritical
            THEN SeverityHigh
       ELSE IF /\ loopInfo.BoundType = BoundConstant /\ loopInfo.EstimatedMax <= 50
               /\ baseSeverity = SeverityHigh
            THEN SeverityMedium
       ELSE IF loopInfo.EstimatedMax > 1000 /\ baseSeverity = SeverityMedium
            THEN SeverityHigh
       ELSE IF loopInfo.EstimatedMax > 1000 /\ baseSeverity = SeverityHigh
            THEN SeverityCritical
       ELSE baseSeverity

\* nestedLoopVisitor.generateComplexityInfo: the format and its argument
generateComplexityInfo(loopInfo, hasInfo, loopDepth) ==
    IF hasInfo /\ loopInfo.BoundType = BoundConstant /\ loopInfo.EstimatedMax > 0
    THEN <<"O(%d) - constant time with ~%d operations",
           loopInfo.EstimatedMax * loopInfo.EstimatedMax>>
    ELSE <<"O(n^%d)", loopDepth>>

\* nestedLoopVisitor.detectNestedLoop on the loop at pos
detectNestedLoop(context, issues, pos, loopDepth) ==
    LET hasInfo == pos \in DOMAIN context
        loopInfo == IF hasInfo THEN context[pos] ELSE Nil
    IN IF hasInfo /\ shouldSkipSmallLoop(loopInfo) THEN issues
       ELSE IF calculateConfidence(loopInfo, hasInfo, loopDepth) < 6 THEN issues
       ELSE Append(issues,
                   [Type |-> IssueNestedLoops,
                    Severity |-> calculateSeverityWithContext(loopInfo, hasInfo, loopDepth),
                    Line |-> pos,
                    Complexity |-> generateComplexityInfo(loopInfo, hasInfo, loopDepth)])

RECURSIVE nestedLoopWalk(_, _, _, _, _)
\* ast.Walk(v, n) for the nestedLoopVisitor v, whose loopDepth and issues are st:
\* Visit handles a loop and its body itself, and lets ast.Walk descend below
\* every other node. visits lists the calls of Visit: the node and the
\* loopDepth the visitor had when it was called
nestedLoopWalk(config, context, n, pos, v) ==
    LET st == [v EXCEPT !.visits = Append(@, [pos |-> pos, loopDepth |-> v.loopDepth])]
        depth == st.loopDepth + 1
        entered ==
            [loopDepth |-> depth,
             issues |-> IF depth > VisitMaxDepth(config)
                        THEN detectNestedLoop(context, st.issues, pos, depth)
                        ELSE st.issues,
             visits |-> st.visits]
        RECURSIVE WalkBody(_, _)
        WalkBody(j, acc) ==
            IF j > Len(getLoopBody(n)) THEN acc
            ELSE CHOOSE r \in {WalkBody(j + 1, after) :
                                 after \in {nestedLoopWalk(config, context, getLoopBody(n)[j],
                                                            LoopBodyPos(n, pos, j), acc)}} : TRUE
        RECURSIVE WalkKids(_, _)
        WalkKids(i, acc) ==
            IF i > Len(n.kids) THEN acc
            ELSE CHOOSE r \in {WalkKids(i + 1, after) :
                                 after \in {nestedLoopWalk(config, context, n.kids[i],
                                                            ChildPos(pos, i), acc)}} : TRUE
    IN IF n.kind \in {"ForStmt", "RangeStmt"}
       THEN [WalkBody(1, entered) EXCEPT !.loopDepth = @ - 1]
       ELSE WalkKids(1, st)

\* NestedLoopDetector.Detect on a file of one function declaration
NestedLoopDetect(config, context, file) ==
    IF file.Body = Nil THEN <<>>
    ELSE nestedLoopWalk(config, context, file.Body, <<>>,
                        [loopDepth |-> 0, issues |-> <<>>, visits |-> <<>>]).issues

InitNestedLoops ==
    /\ nlConfig \in NestedLoopConfigs
    /\ nlFile \in LoopFuncDecls
    /\ nlContext = <<>>
    /\ nlPhase = "parsed"
    /\ nlIssues = <<>>
    /\ OthersIdleNestedLoops

\* Analyzer.buildAnalysisContext, which AnalyzeFiles runs before any detector
BuildAnalysisContext ==
    /\ nlPhase = "parsed"
    /\ nlContext' = analyzeLoopPatterns(nlContext, nlFile)
    /\ nlPhase' = "context"
    /\ UNCHANGED <<nlConfig, nlFile, nlIssues, OtherThanNestedLoops>>

\* Analyzer.analyzeFileWithContext calling the nested-loop detector
DetectNestedLoops ==
    /\ nlPhase = "context"
    /\ nlIssues' = nlIssues \o NestedLoopDetect(nlConfig, nlContext, nlFile)
    /\ nlPhase' = "detected"
    /\ UNCHANGED <<nlConfig, nlFile, nlContext, OtherThanNestedLoops>>

NextNestedLoops == BuildAnalysisContext \/ DetectNestedLoops

SpecNestedLoops == InitNestedLoops /\ [][NextNestedLoops]_vars

----------------------------------------------------------------------------
(* Claims about the nested-loop detector *)

\* three counted loops nested in one another, each bounded by a plain variable,
\* with no break or return
TripleNestedLoop ==
    LET cond == BinaryExpr("<", Ident("i"), Ident("n"))
    IN FuncDecl(BlockStmt(<<ForStmt(cond, <<ForStmt(cond, <<ForStmt(cond, <<>>)>>)>>)>>))

\* the severity and position of every finding
NestedLoopFindings == {<<nlIssues[i].Severity, nlIssues[i].Line>> : i \in DOMAIN nlIssues}

\* C9: under the default configuration the triple nest of counted loops with
\* variable bounds and no early exit yields exactly two nested-loop findings, a
\* Medium one for the loop at depth 2 and a High one for the loop at depth 3.
C9_TripleNestTwoFindings ==
    (nlPhase = "detected" /\ nlFile = TripleNestedLoop
        /\ nlConfig = NestedLoopConfig(DefaultConfigMaxDepth)) =>
    /\ Len(nlIssues) = 2
    /\ NestedLoopFindings = {<<SeverityMedium, <<1, 2, 1>>>>,
                             <<SeverityHigh, <<1, 2, 1, 2, 1>>>>}

----------------------------------------------------------------------------
(* The string concatenation detector (StringConcatDetector,                 *)
(* stringConcatVisitor)                                                     *)

\* the identifiers and vocabulary words of the model, letter by letter
Spell ==
    [result |-> <<"r", "e", "s", "u", "l", "t">>,
     Result |-> <<"R", "e", "s", "u", "l", "t">>,
     count |-> <<"c", "o", "u", "n", "t">>,
     myStr |-> <<"m", "y", "S", "t", "r">>,
     metadata |-> <<"m", "e", "t", "a", "d", "a", "t", "a">>,
     item |-> <<"i", "t", "e", "m">>,
     buf |-> <<"b", "u", "f">>,
     str |-> <<"s", "t", "r">>,
     Str |-> <<"S", "t", "r">>,
     output |-> <<"o", "u", "t", "p", "u", "t">>,
     text |-> <<"t", "e", "x", "t">>,
     content |-> <<"c", "o", "n", "t", "e", "n", "t">>,
     message |-> <<"m", "e", "s", "s", "a", "g", "e">>,
     data |-> <<"d", "a", "t", "a">>]

UpperLetters ==
    <<"A", "B", "C", "D", "E", "F", "G", "H", "I", "J", "K", "L", "M",
      "N", "O", "P", "Q", "R", "S", "T", "U", "V", "W", "X", "Y", "Z">>
LowerLetters ==
    <<"a", "b", "c", "d", "e", "f", "g", "h", "i", "j", "k", "l", "m",
      "n", "o", "p", "q", "r", "s", "t", "u", "v", "w", "x", "y", "z">>

\* strings.ToLower
ToLower(w) ==
    [k \in DOMAIN w |->
        IF \E u \in DOMAIN UpperLetters : UpperLetters[u] = w[k]
        THEN LowerLetters[CHOOSE u \in DOMAIN UpperLetters : UpperLetters[u] = w[k]]
        ELSE w[k]]

\* strings.Contains
Contains(w, substr) ==
    \E k \in 0..(Len(w) - Len(substr)) : SubSeq(w, k + 1, k + Len(substr)) = substr

\* StringVarNames of Rules.Performance.StringConcat in DefaultConfig
DefaultStringVarNames == <<"str", "result", "output", "text", "content", "message", "data">>
\* stringNames in isStringVariable
stringNames == <<"str", "result", "output", "text", "content", "message", "data">>

\* Rules.Performance.StringConcat with the rule enabled
StringConcatConfig(detectInLoops, names) ==
    [Enabled |-> TRUE, DetectInLoops |-> detectInLoops, StringVarNames |-> names]

\* StringConcatDetector.config: nil (NewStringConcatDetector), DefaultConfig,
\* and user configurations: detection in loops off, no names, other names
StringConcatConfigs ==
    {Nil,
     StringConcatConfig(TRUE, DefaultStringVarNames),
     StringConcatConfig(FALSE, DefaultStringVarNames),
     StringConcatConfig(TRUE, <<>>),
     StringConcatConfig(TRUE, <<"buf">>)}

\* result += item
ResultPlusItem == AssignStmt(<<Ident("result")>>, "+=", <<Ident("item")>>)

\* the statements of the generated files
ConcatStmts ==
    LET item == Ident("item")
        res == Ident("result")
    IN {ResultPlusItem,
        AssignStmt(<<res>>, "=", <<BinaryExpr("+", res, item)>>),
        AssignStmt(<<res>>, "=", <<BinaryExpr("+", item, res)>>),
        AssignStmt(<<res>>, ":=", <<BinaryExpr("+", res, item)>>),
        AssignStmt(<<Ident("count")>>, "+=", <<item>>),
        AssignStmt(<<Ident("metadata")>>, "+=", <<item>>),
        AssignStmt(<<Ident("myStr")>>, "+=", <<item>>),
        AssignStmt(<<Ident("Result")>>, "+=", <<item>>),
        AssignStmt(<<SelectorExpr(Ident("p"), "result")>>, "+=", <<item>>),
        AssignStmt(<<res, Ident("count")>>, "=", <<Ident("count"), res>>),
        IfStmt(Ident("ok"), <<ResultPlusItem>>)}

\* a loop statement of the given kind
LoopStmt(kind, body) ==
    IF kind = "ForStmt" THEN ForStmt(Nil, body) ELSE RangeStmt(Ident("items"), body)

RECURSIVE LoopsAround(_, _, _)
\* the statements wrapped in k loops
LoopsAround(kind, stmts, k) ==
    IF k = 0 THEN stmts ELSE <<LoopStmt(kind, LoopsAround(kind, stmts, k - 1))>>

\* the functions of the analysed files: a statement in 0..MaxWrap loops, with
\* at most one statement before and after
ConcatFuncDecls ==
    LET around == {<<>>} \cup {<<stmt>> : stmt \in ConcatStmts}
    IN {FuncDecl(BlockStmt(pre \o LoopsAround(kind, <<stmt>>, k) \o post)) :
            pre \in around, post \in around, stmt \in ConcatStmts,
            kind \in {"ForStmt", "RangeStmt"}, k \in 0..MaxWrap}

\* stringConcatVisitor.isStringVariable
isStringVariable(config, expr) ==
    IF expr.kind # "Ident" THEN FALSE
    ELSE LET name == Spell[expr.tag]
         IN IF /\ config # Nil /\ config.Enabled
               /\ Len(config.StringVarNames) > 0
            THEN \E k \in DOMAIN config.StringVarNames :
                    LET configName == Spell[config.StringVarNames[k]]
                    IN name = configName \/ Contains(ToLower(name), ToLower(configName))
            ELSE \E k \in DOMAIN stringNames :
                    \/ name = Spell[stringNames[k]]
                    \/ /\ Len(name) >= 3
                       /\ \/ SubSeq(name, 1, 3) = Spell["str"]
                          \/ SubSeq(name, Len(name) - 2, Len(name)) = Spell["Str"]

\* stringConcatVisitor.sameVariable
sameVariable(expr1, expr2) ==
    expr1.kind = "Ident" /\ expr2.kind = "Ident" /\ expr1.tag = expr2.tag

\* stringConcatVisitor.createIssue (the superscript two of the annotation is
\* written ^2)
createIssue(issues, pos, message) ==
    Append(issues,
           [Type |-> IssueStringConcat, Severity |-> SeverityMedium, Line |-> pos,
            Message |-> message, Complexity |-> "O(n^2) due to string copying"])

\* stringConcatVisitor.checkStringConcatenation
checkStringConcatenation(config, inLoop, issues, assign, pos) ==
    LET detectInLoops ==
            IF config # Nil /\ config.Enabled THEN config.DetectInLoops ELSE TRUE
    IN IF ~inLoop \/ ~detectInLoops THEN issues
       ELSE IF Len(assign.Lhs) # 1 \/ Len(assign.Rhs) # 1 THEN issues
       ELSE IF assign.tag = "+="
            THEN IF isStringVariable(config, assign.Lhs[1])
                 THEN createIssue(issues, pos, "String concatenation using += in loop")
                 ELSE issues
       ELSE IF /\ assign.tag = "="
               /\ assign.Rhs[1].kind = "BinaryExpr"
               /\ assign.Rhs[1].tag = "+"
               /\ isStringVariable(config, assign.Lhs[1])
               /\ sameVariable(assign.Lhs[1], assign.Rhs[1].kids[1])
            THEN createIssue(issues, pos, "String concatenation using + in loop")
       ELSE issues

\* Visit setting inLoop to what it was before the loop
RestoreInLoopKept(oldInLoop, inLoop) == inLoop

\* "v.inLoop = oldInLoop" at the end of a loop in stringConcatVisitor.Visit
RestoreInLoop(oldInLoop, inLoop) == oldInLoop

RECURSIVE stringConcatWalk(_, _, _, _)
\* ast.Walk(v, n) for the stringConcatVisitor v, whose inLoop and issues are
\* st; visits lists the calls of Visit with the inLoop the visitor had
stringConcatWalk(config, n, pos, v) ==
    LET st == [v EXCEPT !.visits = Append(@, [pos |-> pos, inLoop |-> v.inLoop])]
        RECURSIVE WalkBody(_, _)
        WalkBody(j, acc) ==
            IF j > Len(getLoopBody(n)) THEN acc
            ELSE CHOOSE r \in {WalkBody(j + 1, after) :
                                 after \in {stringConcatWalk(config, getLoopBody(n)[j],
                                                            LoopBodyPos(n, pos, j), acc)}} : TRUE
        RECURSIVE WalkKids(_, _)
        WalkKids(i, acc) ==
            IF i > Len(n.kids) THEN acc
            ELSE CHOOSE r \in {WalkKids(i + 1, after) :
                                 after \in {stringConcatWalk(config, n.kids[i], ChildPos(pos, i), acc)}} : TRUE
        looped == WalkBody(1, [st EXCEPT !.inLoop = TRUE])
    IN CASE n.kind \in {"ForStmt", "RangeStmt"} ->
                [looped EXCEPT !.inLoop = RestoreInLoop(st.inLoop, looped.inLoop)]
         [] n.kind = "AssignStmt" ->
                WalkKids(1, IF st.inLoop
                            THEN [st EXCEPT !.issues =
                                    checkStringConcatenation(config, st.inLoop, @, n, pos)]
                            ELSE st)
         [] OTHER -> WalkKids(1, st)

\* StringConcatDetector.Detect on a file of one function declaration
StringConcatDetect(config, file) ==
    IF file.Body = Nil THEN <<>>
    ELSE stringConcatWalk(config, file.Body, <<>>,
                          [inLoop |-> FALSE, issues |-> <<>>, visits |-> <<>>]).issues

InitStringConcat ==
    /\ scConfig \in StringConcatConfigs
    /\ scFile \in ConcatFuncDecls
    /\ scDone = FALSE
    /\ scIssues = <<>>
    /\ OthersIdleStringConcat

\* Analyzer.analyzeFileWithContext calling the string concatenation detector
DetectStringConcat ==
    /\ ~scDone
    /\ scIssues' = scIssues \o StringConcatDetect(scConfig, scFile)
    /\ scDone' = TRUE
    /\ UNCHANGED <<scConfig, scFile, OtherThanStringConcat>>

NextStringConcat == DetectStringConcat

SpecStringConcat == InitStringConcat /\ [][NextStringConcat]_vars

----------------------------------------------------------------------------
(* Claims about the string concatenation detector *)

RECURSIVE Positions(_, _)
\* the positions of the nodes of the tree n, whose own position is pos
Positions(n, pos) ==
    {pos} \cup UNION {Positions(n.kids[i], ChildPos(pos, i)) : i \in DOMAIN n.kids}

RECURSIVE NodeAt(_, _)
\* the node of the tree n at the position pos
NodeAt(n, pos) == IF pos = <<>> THEN n ELSE NodeAt(n.kids[Head(pos)], Tail(pos))

\* the node at pos lies in the body of some loop of the tree n
InsideLoop(n, pos) ==
    \E k \in 0..(Len(pos) - 1) :
        LET outer == NodeAt(n, SubSeq(pos, 1, k))
        IN outer.kind \in {"ForStmt", "RangeStmt"} /\ pos[k + 1] = Len(outer.kids)

\* the findings reported at a position
ConcatFindingsAt(pos) == {i \in DOMAIN scIssues : scIssues[i].Line = pos}

\* the default vocabulary is in force: no configuration, or one that detects in
\* loops and names the default words or none
DefaultVocabularyInForce ==
    \/ scConfig = Nil
    \/ /\ scConfig.DetectInLoops
       /\ scConfig.StringVarNames \in {<<>>, DefaultStringVarNames}

\* a function whose only loop is a range loop with the body "result += item",
\* alone or with the same statement before or after the loop
SingleRangeLoopFuncs ==
    LET outside == {<<>>, <<ResultPlusItem>>}
    IN {FuncDecl(BlockStmt(pre \o <<RangeStmt(Ident("items"), <<ResultPlusItem>>)>> \o post)) :
            pre \in outside, post \in outside}

\* C10: under the default vocabulary every statement "result += item" inside a
\* loop body yields exactly one finding, Medium and annotated O(n^2), and the
\* same statement outside every loop, before or after one, yields none; a
\* function whose only loop is a range loop with that body has one finding in all.
C10_ConcatInLoopOnly ==
    (scDone /\ DefaultVocabularyInForce) =>
    /\ \A pos \in Positions(scFile.Body, <<>>) :
          NodeAt(scFile.Body, pos) = ResultPlusItem =>
             IF InsideLoop(scFile.Body, pos)
             THEN /\ Cardinality(ConcatFindingsAt(pos)) = 1
                  /\ \A i \in ConcatFindingsAt(pos) :
                        /\ scIssues[i].Type = IssueStringConcat
                        /\ scIssues[i].Severity = SeverityMedium
                        /\ scIssues[i].Complexity = "O(n^2) due to string copying"
             ELSE ConcatFindingsAt(pos) = {}
    /\ scFile \in SingleRangeLoopFuncs => Len(scIssues) = 1

\* the range loop over "result += item" followed by the same statement was
\* analysed under DefaultConfig: one finding, at the statement in the loop
C10_Witness ==
    /\ scDone
    /\ scConfig = StringConcatConfig(TRUE, DefaultStringVarNames)
    /\ scFile = FuncDecl(BlockStmt(<<RangeStmt(Ident("items"), <<ResultPlusItem>>),
                                     ResultPlusItem>>))
    /\ Len(scIssues) = 1
    /\ scIssues[1].Line = <<1, 2, 1>>

----------------------------------------------------------------------------
(* internal/analyzer/detectors/memory_alloc.go *)

\* Rules.Memory.Allocation with the rule enabled
AllocationConfig(detectInLoops, requireCapacityHints, minLoopIterations) ==
    [Enabled |-> TRUE, DetectInLoops |-> detectInLoops,
     RequireCapacityHints |-> requireCapacityHints,
     MinLoopIterations |-> minLoopIterations]

\* MemoryAllocDetector.config: nil (NewMemoryAllocDetector), DefaultConfig, and
\* user configurations that switch one check off or lower the append depth
AllocationConfigs ==
    {Nil,
     AllocationConfig(TRUE, TRUE, 5),
     AllocationConfig(FALSE, TRUE, 5),
     AllocationConfig(TRUE, FALSE, 5),
     AllocationConfig(TRUE, TRUE, 1)}

\* make(typ, args...)
MakeCall(typ, args) == CallExpr(Ident("make"), <<typ>> \o args)

\* the statements of the generated files
AllocStmts ==
    LET n == Ident("n")
        x == Ident("x")
        sliceT == ArrayType(Nil, Ident("T"))
        arrayT == ArrayType(BasicLit("5"), Ident("T"))
        mapT == MapType(Ident("K"), Ident("V"))
    IN {AssignStmt(<<x>>, ":=", <<MakeCall(sliceT, <<n>>)>>),
        AssignStmt(<<x>>, ":=", <<MakeCall(sliceT, <<n, n>>)>>),
        AssignStmt(<<x>>, ":=", <<MakeCall(sliceT, <<>>)>>),
        AssignStmt(<<x>>, ":=", <<MakeCall(arrayT, <<n>>)>>),
        AssignStmt(<<x>>, ":=", <<MakeCall(Ident("Ts"), <<n>>)>>),
        AssignStmt(<<x>>, ":=", <<MakeCall(mapT, <<>>)>>),
        AssignStmt(<<x>>, ":=", <<MakeCall(mapT, <<n>>)>>),
        AssignStmt(<<x>>, ":=", <<CallExpr(Ident("new"), <<Ident("T")>>)>>),
        AssignStmt(<<x>>, "=", <<CallExpr(Ident("append"), <<x, n>>)>>),
        ExprStmt(CallExpr(Ident("f"), <<MakeCall(sliceT, <<n>>)>>)),
        ExprStmt(CallExpr(SelectorExpr(Ident("p"), "make"), <<sliceT, n>>))}

\* the functions of the analysed files: a statement in 0..MaxWrap loops, with
\* at most one statement before and after
AllocFuncDecls ==
    LET around == {<<>>} \cup {<<stmt>> : stmt \in AllocStmts}
    IN {FuncDecl(BlockStmt(pre \o LoopsAround(kind, <<stmt>>, k) \o post)) :
            pre \in around, post \in around, stmt \in AllocStmts,
            kind \in {"ForStmt", "RangeStmt"}, k \in 0..MaxWrap}

\* memoryAllocVisitor.getExprString, as the list of the pieces it joins
getExprString(expr) ==
    CASE expr.kind = "Ident" -> <<expr.tag>>
      [] expr.kind = "BasicLit" -> <<expr.tag>>
      [] expr.kind = "SelectorExpr" ->
            (IF expr.kids[1].kind \in {"Ident", "BasicLit"}
             THEN <<expr.kids[1].tag>> ELSE <<"expr">>) \o <<".", expr.tag>>
      [] OTHER -> <<"expr">>

RECURSIVE getTypeString(_)
\* memoryAllocVisitor.getTypeString, as the list of the pieces it joins
getTypeString(expr) ==
    CASE expr.kind = "ArrayType" ->
            IF expr.Len = Nil
            THEN <<"[]">> \o getTypeString(expr.Elt)
            ELSE <<"[">> \o getExprString(expr.Len) \o <<"]">> \o getTypeString(expr.Elt)
      [] expr.kind = "MapType" ->
            <<"map[">> \o getTypeString(expr.kids[1]) \o <<"]">> \o getTypeString(expr.kids[2])
      [] expr.kind = "Ident" -> <<expr.tag>>
      [] expr.kind = "SelectorExpr" -> getExprString(expr.kids[1]) \o <<".", expr.tag>>
      [] OTHER -> <<"unknown">>

\* strings.HasPrefix(typeStr, "[]"): no identifier starts with a bracket, so
\* the string starts with "[]" exactly when its first piece is "[]"
isSliceType(expr) == Head(getTypeString(expr)) = "[]"
isMapType(expr) == Head(getTypeString(expr)) = "map["

isAllocationCall(call) ==
    CallFun(call).kind = "Ident" /\ CallFun(call).tag \in {"make", "new"}

\* isMakeSliceWithoutCapacity taking every make of a slice with a length
isMakeSliceWithoutCapacityAnyLength(call) ==
    /\ CallFun(call).kind = "Ident" /\ CallFun(call).tag = "make"
    /\ Len(CallArgs(call)) >= 2
    /\ isSliceType(CallArgs(call)[1])

\* memoryAllocVisitor.isMakeSliceWithoutCapacity
isMakeSliceWithoutCapacity(call) ==
    /\ CallFun(call).kind = "Ident" /\ CallFun(call).tag = "make"
    /\ Len(CallArgs(call)) >= 2
    /\ isSliceType(CallArgs(call)[1])
    /\ Len(CallArgs(call)) = 2

isMakeMapWithoutSize(call) ==
    /\ CallFun(call).kind = "Ident" /\ CallFun(call).tag = "make"
    /\ Len(CallArgs(call)) = 1
    /\ isMapType(CallArgs(call)[1])

isAppendCall(call) == CallFun(call).kind = "Ident" /\ CallFun(call).tag = "append"

\* the messages of the allocation findings (the allocation type that
\* checkAllocationInLoop formats into its message is left out)
MsgAllocationInLoop == "Memory allocation inside loop"
MsgSliceWithoutCapacity ==
    "Slice created without capacity hint - may cause multiple reallocations"
MsgMapWithoutSize == "Map created without size hint - may cause rehashing"
MsgAppendWithoutPrealloc == "append() in loop without preallocation - causes slice growth"

\* memoryAllocVisitor.createIssue
createAllocIssue(issues, pos, message, severity) ==
    Append(issues, [Type |-> IssueMemoryAlloc, Severity |-> severity, Line |-> pos,
                    Message |-> message])

checkAllocationInLoop(config, issues, call, pos) ==
    LET detectInLoops ==
            IF config # Nil /\ config.Enabled THEN config.DetectInLoops ELSE TRUE
    IN IF detectInLoops /\ isAllocationCall(call)
       THEN createAllocIssue(issues, pos, MsgAllocationInLoop, SeverityHigh)
       ELSE issues

checkInefficientAllocation(config, issues, call, pos) ==
    LET requireCapacityHints ==
            IF config # Nil /\ config.Enabled THEN config.RequireCapacityHints ELSE TRUE
        slice == IF isMakeSliceWithoutCapacity(call)
                 THEN createAllocIssue(issues, pos, MsgSliceWithoutCapacity, SeverityMedium)
                 ELSE issues
    IN IF ~requireCapacityHints THEN issues
       ELSE IF isMakeMapWithoutSize(call)
            THEN createAllocIssue(slice, pos, MsgMapWithoutSize, SeverityLow)
       ELSE slice

checkAppendWithoutPrealloc(config, loopDepth, issues, assign, pos) ==
    LET minLoopIterations ==
            IF config # Nil /\ config.Enabled THEN config.MinLoopIterations ELSE 5
    IN IF /\ loopDepth >= minLoopIterations
          /\ Len(assign.Rhs) = 1
          /\ assign.Rhs[1].kind = "CallExpr"
          /\ isAppendCall(assign.Rhs[1])
          /\ loopDepth > 0
       THEN createAllocIssue(issues, pos, MsgAppendWithoutPrealloc, SeverityMedium)
       ELSE issues

\* Visit leaving a loop without counting down
LoopLeftUncounted(loopDepth) == loopDepth

\* memoryAllocVisitor.Visit after the body of a loop: v.loopDepth--
LoopLeft(loopDepth) == loopDepth - 1

RECURSIVE memoryAllocWalk(_, _, _, _)
\* ast.Walk(v, n) for the memoryAllocVisitor v, whose loopDepth, inLoop and
\* issues are st; visits lists the calls of Visit with the loopDepth and inLoop
\* the visitor had
memoryAllocWalk(config, n, pos, v) ==
    LET st == [v EXCEPT !.visits = Append(@, [pos |-> pos, loopDepth |-> v.loopDepth,
                                              inLoop |-> v.inLoop])]
        RECURSIVE WalkBody(_, _)
        WalkBody(j, acc) ==
            IF j > Len(getLoopBody(n)) THEN acc
            ELSE CHOOSE r \in {WalkBody(j + 1, after) :
                                 after \in {memoryAllocWalk(config, getLoopBody(n)[j],
                                                            LoopBodyPos(n, pos, j), acc)}} : TRUE
        RECURSIVE WalkKids(_, _)
        WalkKids(i, acc) ==
            IF i > Len(n.kids) THEN acc
            ELSE CHOOSE r \in {WalkKids(i + 1, after) :
                                 after \in {memoryAllocWalk(config, n.kids[i], ChildPos(pos, i), acc)}} : TRUE
        looped == WalkBody(1, [st EXCEPT !.loopDepth = @ + 1, !.inLoop = TRUE])
        inLoopChecked ==
            IF st.inLoop THEN checkAllocationInLoop(config, st.issues, n, pos) ELSE st.issues
    IN CASE n.kind \in {"ForStmt", "RangeStmt"} ->
                [looped EXCEPT !.loopDepth = LoopLeft(@), !.inLoop = st.inLoop]
         [] n.kind = "CallExpr" ->
                WalkKids(1, [st EXCEPT !.issues =
                                checkInefficientAllocation(config, inLoopChecked, n, pos)])
         [] n.kind = "AssignStmt" ->
                WalkKids(1, IF st.inLoop
                            THEN [st EXCEPT !.issues =
                                    checkAppendWithoutPrealloc(config, st.loopDepth, @, n, pos)]
                            ELSE st)
         [] OTHER -> WalkKids(1, st)

\* MemoryAllocDetector.Detect on a file of one function declaration
MemoryAllocDetect(config, file) ==
    IF file.Body = Nil THEN <<>>
    ELSE memoryAllocWalk(config, file.Body, <<>>,
                         [loopDepth |-> 0, inLoop |-> FALSE, issues |-> <<>>,
                          visits |-> <<>>]).issues

InitMemoryAlloc ==
    /\ maConfig \in AllocationConfigs
    /\ maFile \in AllocFuncDecls
    /\ maDone = FALSE
    /\ maIssues = <<>>
    /\ OthersIdleMemoryAlloc

\* Analyzer.analyzeFileWithContext calling the allocation detector
DetectMemoryAlloc ==
    /\ ~maDone
    /\ maIssues' = maIssues \o MemoryAllocDetect(maConfig, maFile)
    /\ maDone' = TRUE
    /\ UNCHANGED <<maConfig, maFile, OtherThanMemoryAlloc>>

NextMemoryAlloc == DetectMemoryAlloc

SpecMemoryAlloc == InitMemoryAlloc /\ [][NextMemoryAlloc]_vars

----------------------------------------------------------------------------
(* Claims about the allocation detector *)

\* the findings reported at a position
AllocFindingsAt(pos) == {i \in DOMAIN maIssues : maIssues[i].Line = pos}

\* the node at pos is make([]T, ...) with the given number of arguments after
\* the type
IsMakeSlice(n, extra) ==
    /\ n.kind = "CallExpr"
    /\ CallFun(n) = Ident("make")
    /\ Len(CallArgs(n)) = 1 + extra
    /\ CallArgs(n)[1] = ArrayType(Nil, Ident("T"))

\* both allocation checks are in force: no configuration, or one that leaves
\* detect_in_loops and require_capacity_hints on
AllocationChecksInForce ==
    maConfig = Nil \/ (maConfig.DetectInLoops /\ maConfig.RequireCapacityHints)

\* C11: make([]T, len, cap) never gets the missing-capacity finding, in a loop
\* or not; make([]T, len) inside a loop gets exactly two allocation findings,
\* a High allocation-in-loop one and a Medium missing-capacity one.
C11_CapacityHintFindings ==
    maDone =>
        \A pos \in Positions(maFile.Body, <<>>) :
            LET n == NodeAt(maFile.Body, pos)
                found == AllocFindingsAt(pos)
            IN /\ IsMakeSlice(n, 2) =>
                    \A i \in found : maIssues[i].Message # MsgSliceWithoutCapacity
               /\ (IsMakeSlice(n, 1) /\ InsideLoop(maFile.Body, pos)
                        /\ AllocationChecksInForce) =>
                    /\ Cardinality(found) = 2
                    /\ \E i, j \in found :
                          /\ maIssues[i].Severity = SeverityHigh
                          /\ maIssues[i].Message = MsgAllocationInLoop
                          /\ maIssues[j].Severity = SeverityMedium
                          /\ maIssues[j].Message = MsgSliceWithoutCapacity
                    /\ \A i \in found : maIssues[i].Type = IssueMemoryAlloc

\* under DefaultConfig a loop over "x := make([]T, n)" followed by
\* "x := make([]T, n, n)" in a second statement was analysed: two findings
C11_Witness ==
    LET sliceT == ArrayType(Nil, Ident("T"))
        n == Ident("n")
    IN /\ maDone
       /\ maConfig = AllocationConfig(TRUE, TRUE, 5)
       /\ maFile = FuncDecl(BlockStmt(
              <<ForStmt(Nil, <<AssignStmt(<<Ident("x")>>, ":=", <<MakeCall(sliceT, <<n>>)>>)>>),
                AssignStmt(<<Ident("x")>>, ":=", <<MakeCall(sliceT, <<n, n>>)>>)>>))
       /\ Len(maIssues) = 2

----------------------------------------------------------------------------
(* The detector registry and the analysis loop (NewAnalyzerWithConfig,      *)
(* AnalyzeFiles, analyzeFileWithContext; internal/analyzer/ast_walker.go)   *)

\* the rules in the order NewAnalyzerWithConfig asks for them
RuleOrder ==
    <<"nested_loops", "string_concat", "cyclomatic_complexity", "memory_allocation",
      "slice_growth", "data_structure", "function_length", "import_cycles">>
Rules == {RuleOrder[k] : k \in DOMAIN RuleOrder}

\* the category whose Enabled flag Config.IsRuleEnabled reads for a rule
CategoryOf(rule) ==
    CASE rule \in {"cyclomatic_complexity", "function_length"} -> "Complexity"
      [] rule \in {"nested_loops", "string_concat", "data_structure"} -> "Performance"
      [] rule = "import_cycles" -> "Quality"
      [] rule \in {"memory_allocation", "slice_growth"} -> "Memory"
Categories == {"Complexity", "Performance", "Quality", "Memory"}

\* the issue type of the findings the detector of a rule creates
IssueTypeOf(rule) ==
    CASE rule = "nested_loops" -> IssueNestedLoops
      [] rule = "string_concat" -> IssueStringConcat
      [] rule = "cyclomatic_complexity" -> IssueCyclomaticComplex
      [] rule = "memory_allocation" -> IssueMemoryAlloc
      [] rule = "slice_growth" -> IssueSliceGrowth
      [] rule = "data_structure" -> IssueInefficinetDS
      [] rule = "function_length" -> IssueFunctionLength
      [] rule = "import_cycles" -> IssueImportCycle

\* a configuration, by its Enabled flags: the categories and the rules switched on
RuleConfig(categories, rules) == [Categories |-> categories, Rules |-> rules]
RuleConfigs == {RuleConfig(c, r) : c \in SUBSET Categories, r \in SUBSET Rules}
\* DefaultConfig: everything enabled
DefaultRuleConfig == RuleConfig(Categories, Rules)

\* Config.IsRuleEnabled reading the rule flag only
IsRuleEnabledRuleFlagOnly(config, ruleType) ==
    ruleType \in Rules /\ ruleType \in config.Rules

\* Config.IsRuleEnabled
IsRuleEnabled(config, ruleType) ==
    /\ ruleType \in Rules
    /\ CategoryOf(ruleType) \in config.Categories
    /\ ruleType \in config.Rules

\* the detector list NewAnalyzerWithConfig builds
NewAnalyzerWithConfig(config) ==
    SelectSeq(RuleOrder, LAMBDA rule : IsRuleEnabled(config, rule))

\* a file named in a call: whether it parses, and for each rule the severities
\* of the findings the detector of that rule returns on it
AnalyzedFile(parses, findings) == [parses |-> parses, findings |-> findings]
NoFindings == [rule \in Rules |-> <<>>]
AnalyzedFiles ==
    {AnalyzedFile(FALSE, NoFindings),
     AnalyzedFile(TRUE, NoFindings),
     AnalyzedFile(TRUE, [NoFindings EXCEPT
        !["nested_loops"] = <<SeverityMedium, SeverityHigh>>,
        !["string_concat"] = <<SeverityMedium>>,
        !["data_structure"] = <<SeverityMedium>>]),
     AnalyzedFile(TRUE, [NoFindings EXCEPT
        !["cyclomatic_complexity"] = <<SeverityCritical>>,
        !["memory_allocation"] = <<SeverityHigh, SeverityMedium>>,
        !["slice_growth"] = <<SeverityLow>>,
        !["function_length"] = <<SeverityHigh>>,
        !["import_cycles"] = <<SeverityCritical>>])}
AnalyzedFileLists == SeqsUpTo(AnalyzedFiles, MaxAnalyzedFiles) \ {<<>>}

\* Detector.Detect of the detector of a rule on the k-th file named in the call
Detect(rule, files, k) ==
    [n \in DOMAIN files[k].findings[rule] |->
        [Type |-> IssueTypeOf(rule), Severity |-> files[k].findings[rule][n],
         File |-> k, Line |-> n]]

RECURSIVE analyzeFileWithContext(_, _, _, _)
\* Analyzer.analyzeFileWithContext: the findings of the detectors from the d-th
\* on, in the order of the detector list
analyzeFileWithContext(detectors, files, k, d) ==
    IF d > Len(detectors) THEN <<>>
    ELSE Detect(detectors[d], files, k) \o analyzeFileWithContext(detectors, files, k, d + 1)

RECURSIVE AnalyzeFiles(_, _, _)
\* Analyzer.AnalyzeFiles: result.Issues after the files from the k-th on; a
\* file that does not parse is skipped
AnalyzeFiles(detectors, files, k) ==
    IF k > Len(files) THEN <<>>
    ELSE (IF files[k].parses THEN analyzeFileWithContext(detectors, files, k, 1) ELSE <<>>)
         \o AnalyzeFiles(detectors, files, k + 1)

InitRegistry ==
    /\ anConfig \in RuleConfigs
    /\ anDetectors = <<>>
    /\ anFiles \in AnalyzedFileLists
    /\ anIssues = <<>>
    /\ anPhase = "new"
    /\ anReport = <<>>
    /\ OthersIdleAnalyzer

DoNewAnalyzerWithConfig ==
    /\ anPhase = "new"
    /\ anDetectors' = NewAnalyzerWithConfig(anConfig)
    /\ anPhase' = "built"
    /\ UNCHANGED <<anConfig, anFiles, anIssues, anReport, OtherThanAnalyzer>>

DoAnalyzeFiles ==
    /\ anPhase = "built"
    /\ anIssues' = AnalyzeFiles(anDetectors, anFiles, 1)
    /\ anPhase' = "analyzed"
    /\ UNCHANGED <<anConfig, anDetectors, anFiles, anReport, OtherThanAnalyzer>>

NextRegistry == DoNewAnalyzerWithConfig \/ DoAnalyzeFiles

SpecRegistry == InitRegistry /\ [][NextRegistry]_vars

----------------------------------------------------------------------------
(* Claims about the registry *)

\* the rules whose category flag and rule flag are both on
EnabledRules == {rule \in Rules : CategoryOf(rule) \in anConfig.Categories /\ rule \in anConfig.Rules}

----------------------------------------------------------------------------
(* The debouncer and the file watcher (package watcher) under runWatchMode. *)
(* Three kinds of goroutine run: eventLoop, the callback of each timer that *)
(* fired, and runWatchMode, whose deferred Close runs after the signal.     *)
(* Every access to the debouncer's fields is under its mutex, so a critical *)
(* section that calls nothing outside the debouncer is one step; flush      *)
(* reads the pending paths, then clears them and calls the handler, then    *)
(* returns, all inside its critical section: it is one step for each, with  *)
(* the mutex held between them.  The runtime fires a timer on its own.      *)

\* the Go files the watcher reports events for (handleEvent drops the others)
WatchedPaths == {"a.go", "b.go"}
Operations == {"WRITE", "CREATE"}
FileChangeEvent(path, op) == [Path |-> path, Operation |-> op]

MutexFree == 0

\* m[k] = v of a Go map held as a function
MapPut(m, k, v) == [x \in DOMAIN m \cup {k} |-> IF x = k THEN v ELSE m[x]]

\* Timer.Stop: a timer that has not fired never runs its callback; a timer
\* whose callback has been started is not affected
TimerStop(timers, t) ==
    IF t # 0 /\ timers[t] = "scheduled" THEN [timers EXCEPT ![t] = "stopped"] ELSE timers

\* time.AfterFunc whose timer never fires
AfterFuncNeverFires(timers) == Append(timers, "stopped")

\* time.AfterFunc: a new timer, scheduled
AfterFunc(timers) == Append(timers, "scheduled")

\* flush replaces the pending map by a new one without dropping its entries
FlushedEventsKept(events) == events

\* flush: d.events = make(map[string]FileChangeEvent)
FlushedEvents(events) == <<>>

\* the deferred Unlock of flush running only when the handler returned nil
MutexAfterFlushHeldOnError(t, err) == IF err THEN t ELSE MutexFree

\* flush: the deferred d.mutex.Unlock() runs whatever the handler returned
MutexAfterFlush(t, err) == MutexFree

InitDebouncer == IdleDebouncer /\ OthersIdleDebouncer

\* eventLoop: an event arrives on watcher.Events and handleEvent passes it on
ReceiveEvent ==
    /\ dbLoop = "select" /\ dbWatcher = "open"
    /\ dbReceived < MaxFileEvents
    /\ \E path \in WatchedPaths, op \in Operations :
          dbEvent' = FileChangeEvent(path, op)
    /\ dbLoop' = "handle"
    /\ dbReceived' = dbReceived + 1
    /\ UNCHANGED <<dbEvents, dbTimer, dbTimers, dbMutex, dbStopChan, dbWatcher, dbMain,
                   dbChangedFiles, dbTrace, OtherThanDebouncer>>

\* eventLoop: the Events channel is closed, the loop returns
LoopReturn ==
    /\ dbLoop = "select" /\ dbWatcher = "closed"
    /\ dbLoop' = "returned"
    /\ UNCHANGED <<dbEvents, dbTimer, dbTimers, dbMutex, dbStopChan, dbWatcher, dbEvent,
                   dbChangedFiles, dbMain, dbReceived, dbTrace, OtherThanDebouncer>>

\* debouncer.add, called by handleEvent
Add ==
    /\ dbLoop = "handle" /\ dbMutex = MutexFree
    /\ dbEvents' = MapPut(dbEvents, dbEvent.Path, dbEvent)
    /\ dbTimers' = AfterFunc(TimerStop(dbTimers, dbTimer))
    /\ dbTimer' = Len(dbTimers) + 1
    /\ dbTrace' = Append(dbTrace, [op |-> "add", path |-> dbEvent.Path, timer |-> Len(dbTimers) + 1])
    /\ dbLoop' = "select"
    /\ dbEvent' = Nil
    /\ UNCHANGED <<dbMutex, dbStopChan, dbWatcher, dbMain, dbReceived, dbChangedFiles,
                   OtherThanDebouncer>>

\* the runtime: the delay of a scheduled timer has passed, its callback starts
TimerFire(t) ==
    /\ dbTimers[t] = "scheduled"
    /\ dbTimers' = [dbTimers EXCEPT ![t] = "fired"]
    /\ UNCHANGED <<dbEvents, dbTimer, dbMutex, dbStopChan, dbWatcher, dbLoop, dbEvent,
                   dbChangedFiles, dbMain, dbReceived, dbTrace, OtherThanDebouncer>>

\* debouncer.flush in the callback of timer t: the lock, the test for no pending
\* event, and the loop that collects the pending paths into changedFiles
FlushCollect(t) ==
    /\ dbTimers[t] = "fired" /\ dbMutex = MutexFree
    /\ IF DOMAIN dbEvents = {}
       THEN /\ dbTimers' = [dbTimers EXCEPT ![t] = "done"]
            /\ UNCHANGED <<dbMutex, dbChangedFiles>>
       ELSE /\ dbChangedFiles' = DOMAIN dbEvents
            /\ dbMutex' = t
            /\ dbTimers' = [dbTimers EXCEPT ![t] = "collected"]
    /\ UNCHANGED <<dbEvents, dbTimer, dbStopChan, dbWatcher, dbLoop, dbEvent, dbMain,
                   dbReceived, dbTrace, OtherThanDebouncer>>

\* debouncer.flush in the callback of timer t: the pending map is replaced and
\* the handler is called with changedFiles
FlushCall(t) ==
    /\ dbTimers[t] = "collected" /\ dbMutex = t
    /\ dbEvents' = FlushedEvents(dbEvents)
    /\ dbTrace' = Append(dbTrace, [op |-> "handler", timer |-> t,
                                   changedFiles |-> dbChangedFiles])
    /\ dbTimers' = [dbTimers EXCEPT ![t] = "handling"]
    /\ UNCHANGED <<dbTimer, dbMutex, dbChangedFiles, dbStopChan, dbWatcher, dbLoop, dbEvent,
                   dbMain, dbReceived, OtherThanDebouncer>>

\* debouncer.flush in the callback of timer t, from the return of the handler
HandlerReturn(t) ==
    /\ dbTimers[t] = "handling" /\ dbMutex = t
    /\ \E err \in BOOLEAN :
          /\ dbTrace' = Append(dbTrace, [op |-> "return", timer |-> t, err |-> err])
          /\ dbMutex' = MutexAfterFlush(t, err)
    /\ dbTimers' = [dbTimers EXCEPT ![t] = "done"]
    /\ UNCHANGED <<dbEvents, dbTimer, dbStopChan, dbWatcher, dbLoop, dbEvent, dbMain,
                   dbChangedFiles, dbReceived, OtherThanDebouncer>>

\* runWatchMode returns after the signal: FileWatcher.Close, which is
\* debouncer.stop and then the Close of the fsnotify watcher
Close ==
    /\ dbMain = "waiting" /\ dbMutex = MutexFree
    /\ dbTimers' = TimerStop(dbTimers, dbTimer)
    /\ dbStopChan' = "closed"
    /\ dbWatcher' = "closed"
    /\ dbMain' = "closed"
    /\ dbTrace' = Append(dbTrace, [op |-> "close"])
    /\ UNCHANGED <<dbEvents, dbTimer, dbMutex, dbLoop, dbEvent, dbReceived,
                   dbChangedFiles, OtherThanDebouncer>>

NextDebouncer ==
    \/ ReceiveEvent
    \/ LoopReturn
    \/ Add
    \/ \E t \in DOMAIN dbTimers : TimerFire(t)
    \/ \E t \in DOMAIN dbTimers : FlushCollect(t)
    \/ \E t \in DOMAIN dbTimers : FlushCall(t)
    \/ \E t \in DOMAIN dbTimers : HandlerReturn(t)
    \/ Close

SpecDebouncer == InitDebouncer /\ [][NextDebouncer]_vars

\* the timers one behaviour can create: one for each add
TimerIds == 1..MaxFileEvents

\* Scheduling: a goroutine that can run does run (eventLoop in add, a timer
\* callback in flush, the handler returning), a goroutine waiting for the
\* mutex gets it once it stays free, and the delay of a scheduled timer passes.
\* Nothing makes an event arrive or a signal come.
FairDebouncer ==
    /\ WF_vars(Add)
    /\ \A t \in TimerIds :
          /\ WF_vars(t \in DOMAIN dbTimers /\ TimerFire(t))
          /\ WF_vars(t \in DOMAIN dbTimers /\ FlushCollect(t))
          /\ WF_vars(t \in DOMAIN dbTimers /\ FlushCall(t))
          /\ WF_vars(t \in DOMAIN dbTimers /\ HandlerReturn(t))

SpecDebouncerLive == SpecDebouncer /\ FairDebouncer

----------------------------------------------------------------------------
(* Claims about the debouncer *)

\* the position of the last handler call before position i of the trace, or 0
LastHandlerBefore(i) ==
    LET calls == {j \in 1..(i - 1) : dbTrace[j].op = "handler"}
    IN  IF calls = {} THEN 0 ELSE CHOOSE j \in calls : \A k \in calls : k <= j

\* the paths added between positions i and j of the trace
AddedBetween(i, j) ==
    {dbTrace[k].path : k \in {k \in (i + 1)..(j - 1) : dbTrace[k].op = "add"}}

\* C14: every handler call receives exactly the distinct paths added since the
\* previous handler call, and the pending set is exactly the paths added since
\* the last one (so it is empty right after a flush, and no add is lost or
\* handed over twice), in every interleaving; while a flush is between reading
\* and clearing the pending set, the pending set is still what it read.
C14_FlushAtomic ==
    /\ \A t \in DOMAIN dbTimers : dbTimers[t] = "collected" => DOMAIN dbEvents = dbChangedFiles
    /\ \A i \in DOMAIN dbTrace :
          dbTrace[i].op = "handler" =>
              dbTrace[i].changedFiles = AddedBetween(LastHandlerBefore(i), i)
    /\ DOMAIN dbEvents = AddedBetween(LastHandlerBefore(Len(dbTrace) + 1), Len(dbTrace) + 1)

\* a path was added twice and another once, then one flush handed over both
\* paths and left nothing pending
C14_Witness ==
    /\ Len(dbTrace) = 4
    /\ dbTrace[1].op = "add" /\ dbTrace[2].op = "add" /\ dbTrace[3].op = "add"
    /\ dbTrace[1].path = dbTrace[3].path /\ dbTrace[1].path # dbTrace[2].path
    /\ dbTrace[4].op = "handler" /\ dbTrace[4].changedFiles = WatchedPaths
    /\ DOMAIN dbEvents = {}

\* C15: the handler is called only by the callback of the timer the most
\* recent add scheduled: no handler call of a timer comes after an add that
\* scheduled a later timer.
C15_OnlyLatestTimerFlushes ==
    \A i \in DOMAIN dbTrace :
        dbTrace[i].op = "handler" =>
            ~\E j \in 1..(i - 1) :
                dbTrace[j].op = "add" /\ dbTrace[j].timer > dbTrace[i].timer

\* a handler call returned an error
FailedFlushBefore(n) ==
    \E i \in 1..n : dbTrace[i].op = "return" /\ dbTrace[i].err

\* a handler call after position n of the trace was given the path
HandedOverAfter(path, n) ==
    \E j \in (n + 1)..Len(dbTrace) :
        dbTrace[j].op = "handler" /\ path \in dbTrace[j].changedFiles

\* the longest trace: an add, a handler call and its return per event, and the Close
MaxTrace == 3 * MaxFileEvents + 1

\* C16: after a handler call returned an error, an event that eventLoop
\* receives is still added and its path is handed to the handler by a later
\* flush, as long as the watcher is not closed.
C16_EventsAfterFailedFlushHandled ==
    \A path \in WatchedPaths, n \in 0..MaxTrace :
        (/\ Len(dbTrace) = n /\ FailedFlushBefore(n)
         /\ dbLoop = "handle" /\ dbEvent.Path = path)
        ~> (HandedOverAfter(path, n) \/ dbMain = "closed")

\* a handler call returned an error, a path was added after it, and a
\* later handler call was given that path, with the watcher still open
C16_Witness ==
    /\ dbMain = "waiting"
    /\ \E i, j, k \in DOMAIN dbTrace :
          /\ i < j /\ j < k
          /\ dbTrace[i].op = "return" /\ dbTrace[i].err
          /\ dbTrace[j].op = "add"
          /\ dbTrace[k].op = "handler" /\ dbTrace[j].path \in dbTrace[k].changedFiles

\* C17: once Close has returned no timer is scheduled and the handler is not
\* called again.
C17_NothingAfterClose ==
    dbMain = "closed" =>
        /\ \A t \in DOMAIN dbTimers : dbTimers[t] # "scheduled"
        /\ \A i, j \in DOMAIN dbTrace :
              dbTrace[i].op = "close" /\ dbTrace[j].op = "handler" => j < i

----------------------------------------------------------------------------
(* The data structure detector (DataStructureDetector, dataStructureVisitor) *)

\* Rules.Performance.DataStructure of a configuration
DataStructureConfig(enabled, detectLinearSearch, minSearchComplexity, suggestMaps) ==
    [Enabled |-> enabled, DetectLinearSearch |-> detectLinearSearch,
     MinSearchComplexity |-> minSearchComplexity, SuggestMaps |-> suggestMaps]

\* no configuration, DefaultConfig, and configurations that differ from it in
\* one setting; with the rule disabled the visitor falls back to its defaults
DataStructureConfigs ==
    {Nil,
     DataStructureConfig(TRUE, TRUE, 2, TRUE),
     DataStructureConfig(TRUE, TRUE, 1, TRUE),
     DataStructureConfig(TRUE, TRUE, 3, TRUE),
     DataStructureConfig(TRUE, FALSE, 2, TRUE),
     DataStructureConfig(TRUE, TRUE, 2, FALSE),
     DataStructureConfig(FALSE, FALSE, 1, FALSE)}

\* "if item == target { return }" and the same test with !=
IfItemIs(op) ==
    IfStmt(BinaryExpr(op, Ident("item"), Ident("target")), <<ReturnStmt(<<>>)>>)

RECURSIVE SearchNests(_)
\* statement lists with a loop nest d deep: each loop is a for or a range
\* statement, directly in the enclosing body or inside an if, with or without
\* an equality test before it; the innermost body is empty or one test
SearchNests(d) ==
    IF d = 0 THEN {<<>>, <<IfItemIs("==")>>, <<IfItemIs("!=")>>}
    ELSE {pre \o <<IF wrapped THEN IfStmt(Ident("ok"), <<LoopStmt(kind, inner)>>)
                   ELSE LoopStmt(kind, inner)>> :
            pre \in {<<>>, <<IfItemIs("==")>>}, wrapped \in BOOLEAN,
            kind \in {"ForStmt", "RangeStmt"}, inner \in SearchNests(d - 1)}

SearchFuncDecls ==
    {FuncDecl(BlockStmt(body)) : body \in UNION {SearchNests(d) : d \in 0..MaxSearchDepth}}

RECURSIVE foundComparison(_)
\* the ast.Inspect of checkForLinearSearch: some BinaryExpr of the tree has Op ==
foundComparison(n) ==
    \/ n.kind = "BinaryExpr" /\ n.tag = "=="
    \/ \E i \in DOMAIN n.kids : foundComparison(n.kids[i])

\* the depth test of checkForLinearSearch taken one level too far
belowMinSearchComplexityInclusive(loopDepth, minSearchComplexity) ==
    loopDepth <= minSearchComplexity

\* checkForLinearSearch: "if v.loopDepth < minSearchComplexity { return }"
belowMinSearchComplexity(loopDepth, minSearchComplexity) ==
    loopDepth < minSearchComplexity

\* createLinearSearchIssue and createSimpleLinearSearchIssue (the arrow of the
\* Complexity text is written "->" here)
createLinearSearchIssue(issues, pos, suggestMaps) ==
    Append(issues, [Type |-> IssueInefficinetDS, Severity |-> SeverityMedium, Line |-> pos,
                    Complexity |-> IF suggestMaps THEN "O(n) search -> O(1) with map"
                                   ELSE "O(n) search"])

\* dataStructureVisitor.checkForLinearSearch
checkForLinearSearch(config, loopDepth, issues, rangeStmt, pos) ==
    LET configured == config # Nil /\ config.Enabled
        detectLinearSearch == IF configured THEN config.DetectLinearSearch ELSE TRUE
        minSearchComplexity == IF configured THEN config.MinSearchComplexity ELSE 2
        suggestMaps == IF configured THEN config.SuggestMaps ELSE TRUE
    IN IF ~detectLinearSearch THEN issues
       ELSE IF belowMinSearchComplexity(loopDepth, minSearchComplexity) THEN issues
       ELSE IF foundComparison(rangeStmt.kids[Len(rangeStmt.kids)])
            THEN createLinearSearchIssue(issues, pos, suggestMaps)
            ELSE issues

RECURSIVE dataStructureWalk(_, _, _, _)
\* ast.Walk(v, n) for the dataStructureVisitor v, whose loopDepth, inLoop and
\* issues are st; visits lists the calls of Visit with the loopDepth and inLoop
\* the visitor had
dataStructureWalk(config, n, pos, v) ==
    LET st == [v EXCEPT !.visits = Append(@, [pos |-> pos, loopDepth |-> v.loopDepth,
                                              inLoop |-> v.inLoop])]
        RECURSIVE WalkBody(_, _)
        WalkBody(j, acc) ==
            IF j > Len(getLoopBody(n)) THEN acc
            ELSE CHOOSE r \in {WalkBody(j + 1, after) :
                                 after \in {dataStructureWalk(config, getLoopBody(n)[j],
                                                            LoopBodyPos(n, pos, j), acc)}} : TRUE
        RECURSIVE WalkKids(_, _)
        WalkKids(i, acc) ==
            IF i > Len(n.kids) THEN acc
            ELSE CHOOSE r \in {WalkKids(i + 1, after) :
                                 after \in {dataStructureWalk(config, n.kids[i], ChildPos(pos, i), acc)}} : TRUE
        entered == [st EXCEPT !.loopDepth = @ + 1, !.inLoop = TRUE]
        checked == IF n.kind = "RangeStmt"
                   THEN [entered EXCEPT !.issues =
                            checkForLinearSearch(config, entered.loopDepth, @, n, pos)]
                   ELSE entered
        looped == WalkBody(1, checked)
    IN IF n.kind \in {"ForStmt", "RangeStmt"}
       THEN [looped EXCEPT !.loopDepth = @ - 1, !.inLoop = st.inLoop]
       ELSE WalkKids(1, st)

\* DataStructureDetector.Detect on a file of one function declaration
DataStructureDetect(config, file) ==
    IF file.Body = Nil THEN <<>>
    ELSE dataStructureWalk(config, file.Body, <<>>,
                           [loopDepth |-> 0, inLoop |-> FALSE, issues |-> <<>>,
                            visits |-> <<>>]).issues

InitDataStructure ==
    /\ dsConfig \in DataStructureConfigs
    /\ dsFile \in SearchFuncDecls
    /\ dsDone = FALSE
    /\ dsIssues = <<>>
    /\ OthersIdleDataStructure

\* Analyzer.analyzeFileWithContext calling the data structure detector
DetectDataStructure ==
    /\ ~dsDone
    /\ dsIssues' = dsIssues \o DataStructureDetect(dsConfig, dsFile)
    /\ dsDone' = TRUE
    /\ UNCHANGED <<dsConfig, dsFile, OtherThanDataStructure>>

NextDataStructure == DetectDataStructure

SpecDataStructure == InitDataStructure /\ [][NextDataStructure]_vars

----------------------------------------------------------------------------
(* Claims about the data structure detector *)

\* the loop-nesting depth of the loop at pos: itself and the loops whose body
\* it lies in
LoopNestingDepth(n, pos) ==
    1 + Cardinality({k \in 0..(Len(pos) - 1) :
            LET outer == NodeAt(n, SubSeq(pos, 1, k))
            IN outer.kind \in {"ForStmt", "RangeStmt"} /\ pos[k + 1] = Len(outer.kids)})

\* the body of the loop at pos holds an == comparison
BodyHasEquality(n, pos) ==
    LET loop == NodeAt(n, pos)
        body == loop.kids[Len(loop.kids)]
    IN \E p \in Positions(body, <<>>) :
          NodeAt(body, p).kind = "BinaryExpr" /\ NodeAt(body, p).tag = "=="

SearchFindingsAt(pos) == {i \in DOMAIN dsIssues : dsIssues[i].Line = pos}

\* linear search detection is on: no configuration, the rule disabled (the
\* visitor then uses its defaults), or detect_linear_search set
LinearSearchInForce ==
    dsConfig = Nil \/ ~dsConfig.Enabled \/ dsConfig.DetectLinearSearch

\* the minimum in force: min_search_complexity of an enabled rule, else 2
MinimumInForce ==
    IF dsConfig # Nil /\ dsConfig.Enabled THEN dsConfig.MinSearchComplexity ELSE 2

----------------------------------------------------------------------------
(* The detailed report (ReportGenerator.writeDetailedIssuesWithColors,      *)
(* internal/analyzer/report.go) after an analysis                           *)

\* the files of the reported runs: one that does not parse, one whose loops
\* give three findings, one with three findings of other detectors
ReportedFiles ==
    {AnalyzedFile(FALSE, NoFindings),
     AnalyzedFile(TRUE, [NoFindings EXCEPT
        !["nested_loops"] = <<SeverityMedium, SeverityHigh>>,
        !["string_concat"] = <<SeverityLow>>]),
     AnalyzedFile(TRUE, [NoFindings EXCEPT
        !["cyclomatic_complexity"] = <<SeverityCritical>>,
        !["memory_allocation"] = <<SeverityHigh>>,
        !["function_length"] = <<SeverityLow>>])}
ReportedFileLists == SeqsUpTo(ReportedFiles, MaxAnalyzedFiles) \ {<<>>}

\* DefaultConfig, and configurations with a category or a rule switched off
ReportConfigs ==
    {DefaultRuleConfig,
     RuleConfig(Categories \ {"Memory"}, Rules),
     RuleConfig(Categories, Rules \ {"string_concat"})}

RECURSIVE Orderings(_)
\* the sequences that list every element of a finite set once
Orderings(S) ==
    IF S = {} THEN {<<>>}
    ELSE UNION {{<<x>> \o rest : rest \in Orderings(S \ {x})} : x \in S}

\* sort.Slice with less = "Severity greater": the issues by descending
\* severity; the sort is not stable, so issues of one severity come in any order
SortBySeverity(issues) ==
    LET OfSeverity(sev) == {i \in DOMAIN issues : issues[i].Severity = sev}
    IN {[k \in DOMAIN order |-> issues[order[k]]] :
           order \in {c \o h \o m \o l :
                         c \in Orderings(OfSeverity(SeverityCritical)),
                         h \in Orderings(OfSeverity(SeverityHigh)),
                         m \in Orderings(OfSeverity(SeverityMedium)),
                         l \in Orderings(OfSeverity(SeverityLow))}}

\* the report sorting result.Issues itself
IssuesAfterReportSortedInPlace(issues, sortedIssues) == sortedIssues

\* result.Issues after the report: sortedIssues is a copy ("make" and "copy"),
\* and the sort works on the copy
IssuesAfterReport(issues, sortedIssues) == issues

InitReport ==
    /\ anConfig \in ReportConfigs
    /\ anDetectors = <<>>
    /\ anFiles \in ReportedFileLists
    /\ anIssues = <<>>
    /\ anPhase = "new"
    /\ anReport = <<>>
    /\ OthersIdleAnalyzer

\* ReportGenerator.Generate writing the detailed issues of the result
GenerateReport ==
    /\ anPhase = "analyzed"
    /\ \E sortedIssues \in SortBySeverity(anIssues) :
          /\ anReport' = sortedIssues
          /\ anIssues' = IssuesAfterReport(anIssues, sortedIssues)
    /\ anPhase' = "reported"
    /\ UNCHANGED <<anConfig, anDetectors, anFiles, OtherThanAnalyzer>>

NextReport == DoNewAnalyzerWithConfig \/ DoAnalyzeFiles \/ GenerateReport

SpecReport == InitReport /\ [][NextReport]_vars

----------------------------------------------------------------------------
(* Claims about the order of the findings *)

\* the place of the rule of an issue type in the registration order
RegistrationIndex(type) ==
    CHOOSE k \in DOMAIN RuleOrder : IssueTypeOf(RuleOrder[k]) = type

\* issue a comes before issue b in execution order: an earlier file of the
\* call, or the same file and an earlier detector, or the same detector and
\* an earlier finding of it
ExecutedBefore(a, b) ==
    \/ a.File < b.File
    \/ /\ a.File = b.File
       /\ \/ RegistrationIndex(a.Type) < RegistrationIndex(b.Type)
          \/ a.Type = b.Type /\ a.Line < b.Line

\* the findings of a result are in execution order
InExecutionOrder ==
    anPhase \in {"analyzed", "reported"} =>
        \A i, j \in DOMAIN anIssues : i < j => ExecutedBefore(anIssues[i], anIssues[j])

\* C19: the findings of a result are grouped by file in the order the files
\* were given and, within a file, are in detector registration order, not in
\* severity order; generating the report, which sorts by severity, leaves the
\* findings list and its order as they were.
C19_FindingsInExecutionOrder ==
    /\ []InExecutionOrder
    /\ [][anPhase' = "reported" => anIssues' = anIssues]_vars

\* a result of two files was reported: its findings are not in severity
\* order, the report lists them by descending severity
C19_Witness ==
    /\ anPhase = "reported"
    /\ \E i, j \in DOMAIN anIssues :
          /\ i < j /\ anIssues[i].Severity < anIssues[j].Severity
          /\ anIssues[i].File = 1 /\ anIssues[j].File = 2
    /\ \A i, j \in DOMAIN anReport : i < j => anReport[i].Severity >= anReport[j].Severity
    /\ anReport # anIssues

----------------------------------------------------------------------------
(* Claims about the loops the nested-loop detector leaves out *)

\* the integer literals from 1 to 10
SmallLiterals == {"1", "2", "3", "4", "5", "6", "7", "8", "9", "10"}

\* a counted loop compared against an integer literal from 1 to 10
HasSmallLiteralBound(loop) ==
    /\ loop.kind = "ForStmt"
    /\ ForCond(loop) # Nil
    /\ ForCond(loop).kind = "BinaryExpr"
    /\ ForCond(loop).kids[2].kind = "BasicLit"
    /\ ForCond(loop).kids[2].tag \in SmallLiterals

\* the loop holds a break or a return
HoldsBreakOrReturn(loop) ==
    \E p \in Positions(loop, <<>>) :
        \/ NodeAt(loop, p).kind = "ReturnStmt"
        \/ NodeAt(loop, p).kind = "BranchStmt" /\ NodeAt(loop, p).tag = "break"

\* C20: a loop deeper than the maximum nesting depth gets no nested-loop
\* finding when it is a counted loop compared against an integer literal from
\* 1 to 10, or when it holds a break or a return.
C20_SmallOrExitingLoopsSkipped ==
    nlPhase = "detected" =>
    \A pos \in Positions(nlFile.Body, <<>>) :
        LET loop == NodeAt(nlFile.Body, pos)
        IN (/\ loop.kind \in {"ForStmt", "RangeStmt"}
            /\ LoopNestingDepth(nlFile.Body, pos) > VisitMaxDepth(nlConfig)
            /\ HasSmallLiteralBound(loop) \/ HoldsBreakOrReturn(loop))
           => \A i \in DOMAIN nlIssues : nlIssues[i].Line # pos

----------------------------------------------------------------------------
(* Claims about the severity of nested-loop findings *)

\* the severity the nesting depth alone gives
SeverityOfDepth(depth) ==
    CASE depth = 2 -> SeverityMedium
      [] depth = 3 -> SeverityHigh
      [] OTHER -> SeverityCritical

\* C21: every nested-loop finding has the severity of the nesting depth of its
\* loop: Medium at depth 2, High at depth 3, Critical at depth 4 or more,
\* whatever the bound of the loop.
C21_SeverityByDepthAlone ==
    nlPhase = "detected" =>
        \A i \in DOMAIN nlIssues :
            nlIssues[i].Severity =
                SeverityOfDepth(LoopNestingDepth(nlFile.Body, nlIssues[i].Line))

----------------------------------------------------------------------------
(* internal/analyzer/detectors/function_length.go *)

\* Rules.Complexity.FunctionLength of a configuration
FunctionLengthConfig(enabled, m, h, c) ==
    [Enabled |-> enabled, MediumThreshold |-> m, HighThreshold |-> h, CriticalThreshold |-> c]

\* no configuration, DefaultConfig, two user configurations with ascending
\* thresholds, and one with the rule disabled (the visitor then uses 50/100/200)
FunctionLengthConfigs ==
    {Nil,
     FunctionLengthConfig(TRUE, 50, 100, 200),
     FunctionLengthConfig(TRUE, 2, 4, 6),
     FunctionLengthConfig(TRUE, 10, 11, 12),
     FunctionLengthConfig(FALSE, 2, 4, 6)}

\* a function declaration for the length detector: the source line of every
\* node of its body, in the order ast.Inspect visits them.  The body spans the
\* given number of lines from the line of its opening brace, and every line
\* holds the given number of nodes
LinedFuncDecl(lines, nodesPerLine) ==
    [kind |-> "FuncDecl",
     BodyLines |-> [k \in 1..(lines * nodesPerLine) |-> 1 + ((k - 1) \div nodesPerLine)]]
LinedFuncDecls ==
    {LinedFuncDecl(lines, nodes) : lines \in 1..MaxFunctionLines, nodes \in 1..2}

\* functionLengthVisitor.countActualLinesOfCode: the size of linesSeen
countActualLinesOfCode(bodyLines) ==
    Cardinality({bodyLines[k] : k \in DOMAIN bodyLines})

\* functionLengthVisitor.calculateSeverity
calculateLengthSeverity(config, loc) ==
    LET configured == config # Nil /\ config.Enabled
        mediumThreshold == IF configured THEN config.MediumThreshold ELSE 50
        highThreshold == IF configured THEN config.HighThreshold ELSE 100
        criticalThreshold == IF configured THEN config.CriticalThreshold ELSE 200
    IN CASE loc >= criticalThreshold -> SeverityCritical
         [] loc >= highThreshold -> SeverityHigh
         [] loc >= mediumThreshold -> SeverityMedium
         [] OTHER -> SeverityLow

\* functionLengthVisitor.analyzeFunctionLength and createLengthIssue
analyzeFunctionLength(config, issues, fn) ==
    LET actualLOC == countActualLinesOfCode(fn.BodyLines)
        mediumThreshold ==
            IF config # Nil /\ config.Enabled THEN config.MediumThreshold ELSE 50
    IN IF actualLOC >= mediumThreshold
       THEN Append(issues, [Type |-> IssueFunctionLength,
                            Severity |-> calculateLengthSeverity(config, actualLOC),
                            ActualLOC |-> actualLOC])
       ELSE issues

InitFunctionLength ==
    /\ flConfig \in FunctionLengthConfigs
    /\ flFile \in LinedFuncDecls
    /\ flDone = FALSE
    /\ flIssues = <<>>
    /\ OthersIdleFunctionLength

\* FunctionLengthDetector.Detect on a file of one function declaration
DetectFunctionLength ==
    /\ ~flDone
    /\ flIssues' = analyzeFunctionLength(flConfig, flIssues, flFile)
    /\ flDone' = TRUE
    /\ UNCHANGED <<flConfig, flFile, OtherThanFunctionLength>>

NextFunctionLength == DetectFunctionLength

SpecFunctionLength == InitFunctionLength /\ [][NextFunctionLength]_vars

----------------------------------------------------------------------------
(* Claims about the function length detector *)

\* the number of distinct source lines the nodes of the body touch
DistinctBodyLines ==
    Cardinality({l \in 1..Len(flFile.BodyLines) : \E k \in DOMAIN flFile.BodyLines : flFile.BodyLines[k] = l})

\* the thresholds in force: those of an enabled rule, else 50/100/200
LengthThresholds ==
    IF flConfig # Nil /\ flConfig.Enabled
    THEN <<flConfig.MediumThreshold, flConfig.HighThreshold, flConfig.CriticalThreshold>>
    ELSE <<50, 100, 200>>

\* C22: a function of L distinct body lines is reported only if L is above the
\* medium threshold, once, as Medium up to the high threshold, High up to the
\* critical threshold and Critical above it; no finding is Low.
C22_LengthTiers ==
    flDone =>
        LET L == DistinctBodyLines
            m == LengthThresholds[1]
            h == LengthThresholds[2]
            c == LengthThresholds[3]
        IN IF L <= m THEN flIssues = <<>>
           ELSE /\ Len(flIssues) = 1
                /\ flIssues[1].Severity =
                       (IF L <= h THEN SeverityMedium
                        ELSE IF L <= c THEN SeverityHigh ELSE SeverityCritical)
                /\ flIssues[1].Severity # SeverityLow

----------------------------------------------------------------------------
(* internal/analyzer/detectors/slice_growth.go *)

\* Rules.Memory.SliceGrowth of a configuration
SliceGrowthConfig(enabled, requireCapacity, detectAppendInLoops, minAppendCount) ==
    [Enabled |-> enabled, RequireCapacity |-> requireCapacity,
     DetectAppendInLoops |-> detectAppendInLoops, MinAppendCount |-> minAppendCount]

\* no configuration, DefaultConfig, configurations that differ from it in one
\* setting, and one with the rule disabled (the visitor then uses its defaults)
SliceGrowthConfigs ==
    {Nil,
     SliceGrowthConfig(TRUE, TRUE, TRUE, 3),
     SliceGrowthConfig(TRUE, TRUE, TRUE, 1),
     SliceGrowthConfig(TRUE, TRUE, TRUE, 2),
     SliceGrowthConfig(TRUE, TRUE, FALSE, 3),
     SliceGrowthConfig(FALSE, FALSE, FALSE, 1)}

\* a "var" declaration with one ValueSpec: its Names and its Values
GenDecl(tok, names, values) ==
    [kind |-> "GenDecl", tag |-> tok, kids |-> values, Names |-> names, Values |-> values]

\* "s = append(s, x)" for a variable s
AppendTo(name) ==
    AssignStmt(<<Ident(name)>>, "=", <<CallExpr(Ident("append"), <<Ident(name), Ident("x")>>)>>)

\* the statements of the generated functions: s created with and without a
\* capacity, by := and by var; appends to s and to a variable never created;
\* loops that append to s once and twice
SliceStmts ==
    LET sliceT == ArrayType(Nil, Ident("T"))
        zero == BasicLit("0")
    IN {AssignStmt(<<Ident("s")>>, ":=", <<MakeCall(sliceT, <<zero>>)>>),
        AssignStmt(<<Ident("s")>>, ":=", <<MakeCall(sliceT, <<zero, Ident("n")>>)>>),
        GenDecl("var", <<"s">>, <<MakeCall(sliceT, <<zero>>)>>),
        AppendTo("s"),
        AppendTo("t"),
        ForStmt(Nil, <<AppendTo("s")>>),
        RangeStmt(Ident("items"), <<AppendTo("s"), AppendTo("s")>>),
        IfStmt(Ident("ok"), <<AppendTo("s")>>)}

\* the files: a first function of at most MaxSliceStmts statements, alone or
\* followed by a function that appends to s in a loop without creating it, or
\* by one that creates s with a capacity first
SliceFiles ==
    LET sliceT == ArrayType(Nil, Ident("T"))
        second ==
            {<<>>,
             <<FuncDecl(BlockStmt(<<ForStmt(Nil, <<AppendTo("s")>>)>>))>>,
             <<FuncDecl(BlockStmt(
                 <<AssignStmt(<<Ident("s")>>, ":=",
                              <<MakeCall(sliceT, <<BasicLit("0"), Ident("n")>>)>>),
                   RangeStmt(Ident("items"), <<AppendTo("s"), AppendTo("s")>>)>>))>>}
    IN {<<FuncDecl(BlockStmt(body))>> \o g :
            body \in SeqsUpTo(SliceStmts, MaxSliceStmts), g \in second}

\* sliceGrowthVisitor.isSliceMake, with its isSliceType
isSliceMake(expr) ==
    /\ expr.kind = "CallExpr"
    /\ CallFun(expr).kind = "Ident" /\ CallFun(expr).tag = "make"
    /\ Len(CallArgs(expr)) > 0
    /\ CallArgs(expr)[1].kind = "ArrayType" /\ CallArgs(expr)[1].Len = Nil

\* sliceGrowthVisitor.sliceMakeHasCapacity
sliceMakeHasCapacity(expr) ==
    /\ expr.kind = "CallExpr"
    /\ CallFun(expr).kind = "Ident" /\ CallFun(expr).tag = "make"
    /\ Len(CallArgs(expr)) >= 3

\* sliceInfo
SliceInfo(hasCapacity, usedInLoop, appendCount) ==
    [hasCapacity |-> hasCapacity, usedInLoop |-> usedInLoop, appendCount |-> appendCount]

\* createSliceGrowthIssue (Medium) and createAppendIssue (High)
createSliceGrowthIssue(issues, pos) ==
    Append(issues, [Type |-> IssueSliceGrowth, Severity |-> SeverityMedium, Line |-> pos])
createAppendIssue(issues, pos, appendCount) ==
    Append(issues, [Type |-> IssueSliceGrowth, Severity |-> SeverityHigh, Line |-> pos,
                    Appends |-> appendCount])

\* Visit keeping the slices of the function before
ResetSliceVarsKept(sliceVars) == sliceVars

\* Visit on a FuncDecl: v.sliceVars = make(map[string]*sliceInfo)
ResetSliceVars(sliceVars) == <<>>

\* sliceGrowthVisitor.trackAppendUsage
trackAppendUsage(config, st, assign, pos) ==
    LET configured == config # Nil /\ config.Enabled
        detectAppendInLoops == IF configured THEN config.DetectAppendInLoops ELSE TRUE
        minAppendCount == IF configured THEN config.MinAppendCount ELSE 3
        ident == assign.Lhs[1]
    IN IF ~detectAppendInLoops THEN st
       ELSE IF Len(assign.Lhs) > 0 /\ ident.kind = "Ident" /\ ident.tag \in DOMAIN st.sliceVars
       THEN LET info == [st.sliceVars[ident.tag] EXCEPT !.appendCount = @ + 1]
            IN [st EXCEPT
                  !.sliceVars = MapPut(@, ident.tag, info),
                  !.issues = IF st.inLoop /\ ~info.hasCapacity
                                /\ info.appendCount >= minAppendCount
                             THEN createAppendIssue(@, pos, info.appendCount)
                             ELSE @]
       ELSE st

\* sliceGrowthVisitor.checkSliceAssignment
checkSliceAssignment(config, st, assign, pos) ==
    LET defines == /\ assign.tag = ":=" /\ Len(assign.Lhs) = 1 /\ Len(assign.Rhs) = 1
                   /\ assign.Lhs[1].kind = "Ident" /\ isSliceMake(assign.Rhs[1])
        hasCapacity == sliceMakeHasCapacity(assign.Rhs[1])
        created ==
            IF defines
            THEN [st EXCEPT
                    !.sliceVars = MapPut(@, assign.Lhs[1].tag,
                                         SliceInfo(hasCapacity, st.inLoop, 0)),
                    !.issues = IF ~hasCapacity /\ st.inLoop
                               THEN createSliceGrowthIssue(@, pos) ELSE @]
            ELSE st
    IN IF Len(assign.Rhs) = 1 /\ assign.Rhs[1].kind = "CallExpr" /\ isAppendCall(assign.Rhs[1])
       THEN trackAppendUsage(config, created, assign, pos)
       ELSE created

\* sliceGrowthVisitor.checkSliceDeclaration, for the one ValueSpec of the declaration
checkSliceDeclaration(config, st, decl, pos) ==
    LET requireCapacity ==
            IF config # Nil /\ config.Enabled THEN config.RequireCapacity ELSE TRUE
        RECURSIVE Names(_, _)
        Names(i, acc) ==
            IF i > Len(decl.Names) THEN acc
            ELSE IF i <= Len(decl.Values) /\ isSliceMake(decl.Values[i])
            THEN LET hasCapacity == sliceMakeHasCapacity(decl.Values[i])
                 IN Names(i + 1,
                          [acc EXCEPT
                             !.sliceVars = MapPut(@, decl.Names[i],
                                                  SliceInfo(hasCapacity, FALSE, 0)),
                             !.issues = IF requireCapacity /\ ~hasCapacity
                                        THEN createSliceGrowthIssue(@, pos) ELSE @])
            ELSE Names(i + 1, acc)
    IN IF decl.tag # "var" THEN st ELSE Names(1, st)

RECURSIVE sliceGrowthWalk(_, _, _, _)
\* ast.Walk(v, n) for the sliceGrowthVisitor v, whose sliceVars, inLoop,
\* loopDepth and issues are st; the visitor after one child is computed before
\* the next child is walked ("after" is bound to its value). visits lists the
\* calls of Visit with the loopDepth and inLoop the visitor had
sliceGrowthWalk(config, n, pos, v) ==
    LET st == [v EXCEPT !.visits = Append(@, [pos |-> pos, loopDepth |-> v.loopDepth,
                                              inLoop |-> v.inLoop])]
        RECURSIVE WalkBody(_, _)
        WalkBody(j, acc) ==
            IF j > Len(getLoopBody(n)) THEN acc
            ELSE CHOOSE r \in {WalkBody(j + 1, after) :
                                 after \in {sliceGrowthWalk(config, getLoopBody(n)[j],
                                                            LoopBodyPos(n, pos, j), acc)}} : TRUE
        RECURSIVE WalkKids(_, _)
        WalkKids(i, acc) ==
            IF i > Len(n.kids) THEN acc
            ELSE CHOOSE r \in {WalkKids(i + 1, after) :
                                 after \in {sliceGrowthWalk(config, n.kids[i],
                                                            ChildPos(pos, i), acc)}} : TRUE
        entered ==
            [st EXCEPT !.loopDepth = @ + 1, !.inLoop = TRUE,
                       !.sliceVars = [name \in DOMAIN st.sliceVars |->
                                        [st.sliceVars[name] EXCEPT !.usedInLoop = TRUE]]]
        looped == WalkBody(1, entered)
    IN CASE n.kind \in {"ForStmt", "RangeStmt"} ->
                [looped EXCEPT !.loopDepth = @ - 1, !.inLoop = st.inLoop]
         [] n.kind = "AssignStmt" -> WalkKids(1, checkSliceAssignment(config, st, n, pos))
         [] n.kind = "GenDecl" -> WalkKids(1, checkSliceDeclaration(config, st, n, pos))
         [] OTHER -> WalkKids(1, st)

\* Visit at one FuncDecl: sliceVars is reset, then ast.Walk descends into the body
sliceGrowthVisitDecl(config, decl, k, st) ==
    IF decl.Body = Nil
    THEN [st EXCEPT !.sliceVars = ResetSliceVars(st.sliceVars)]
    ELSE sliceGrowthWalk(config, decl.Body, <<k>>,
             [st EXCEPT !.sliceVars = ResetSliceVars(st.sliceVars)])

RECURSIVE sliceGrowthWalkDecls(_, _, _, _)
\* ast.Walk(v, file) from the k-th function declaration of the file on
sliceGrowthWalkDecls(config, file, k, st) ==
    IF k > Len(file) THEN st
    ELSE CHOOSE r \in {sliceGrowthWalkDecls(config, file, k + 1, after) :
                         after \in {sliceGrowthVisitDecl(config, file[k], k, st)}} : TRUE

\* SliceGrowthDetector.Detect
SliceGrowthDetect(config, file) ==
    sliceGrowthWalkDecls(config, file, 1,
        [sliceVars |-> <<>>, inLoop |-> FALSE, loopDepth |-> 0, issues |-> <<>>,
         visits |-> <<>>]).issues

InitSliceGrowth ==
    /\ sgConfig \in SliceGrowthConfigs
    /\ sgFile \in SliceFiles
    /\ sgDone = FALSE
    /\ sgIssues = <<>>
    /\ OthersIdleSliceGrowth

\* Analyzer.analyzeFileWithContext calling the slice growth detector
DetectSliceGrowth ==
    /\ ~sgDone
    /\ sgIssues' = sgIssues \o SliceGrowthDetect(sgConfig, sgFile)
    /\ sgDone' = TRUE
    /\ UNCHANGED <<sgConfig, sgFile, OtherThanSliceGrowth>>

NextSliceGrowth == DetectSliceGrowth

SpecSliceGrowth == InitSliceGrowth /\ [][NextSliceGrowth]_vars

----------------------------------------------------------------------------
(* Claims about the slice growth detector *)

\* position p comes before position q in the source text
PosBefore(p, q) ==
    \/ Len(p) < Len(q) /\ SubSeq(q, 1, Len(p)) = p
    \/ \E i \in 1..Len(p) :
          /\ i <= Len(q)
          /\ SubSeq(p, 1, i - 1) = SubSeq(q, 1, i - 1)
          /\ p[i] < q[i]

\* expr is make([]T, ...), and it names a capacity
MakesSlice(expr) ==
    /\ expr.kind = "CallExpr" /\ expr.kids[1] = Ident("make") /\ Len(expr.kids) >= 2
    /\ expr.kids[2].kind = "ArrayType" /\ expr.kids[2].Len = Nil
NamesCapacity(expr) == Len(expr.kids) = 4

\* the statement n creates the slice variable name by make: the make call, or
\* Nil when n does not create it
CreatedBy(n, name) ==
    IF n.kind = "AssignStmt" /\ n.tag = ":=" /\ n.Lhs = <<Ident(name)>>
       /\ Len(n.Rhs) = 1 /\ MakesSlice(n.Rhs[1])
    THEN n.Rhs[1]
    ELSE IF n.kind = "GenDecl" /\ n.tag = "var" /\ n.Names = <<name>>
            /\ Len(n.Values) = 1 /\ MakesSlice(n.Values[1])
    THEN n.Values[1]
    ELSE Nil

\* the positions, in the body of the k-th function of the analyzed file, of
\* the creations of the variable and of the appends to it
SliceCreations(k, name) ==
    {p \in Positions(sgFile[k].Body, <<>>) :
        CreatedBy(NodeAt(sgFile[k].Body, p), name) # Nil}
SliceAppends(k, name) ==
    {p \in Positions(sgFile[k].Body, <<>>) : NodeAt(sgFile[k].Body, p) = AppendTo(name)}

\* the creations of the variable before the append at p, and the appends to it
\* since the creation at c up to and including the one at p
CreationsBefore(k, name, p) == {c \in SliceCreations(k, name) : PosBefore(c, p)}
AppendsSince(k, name, c, p) ==
    {q \in SliceAppends(k, name) : PosBefore(c, q) /\ (q = p \/ PosBefore(q, p))}

\* the append at p of the k-th function is to a variable whose latest creation
\* in that function named no capacity, lies in a loop, and is at least the
\* minimum-th append since that creation
GrowsInLoop(k, name, p, minimum) ==
    \E c \in CreationsBefore(k, name, p) :
        /\ \A d \in CreationsBefore(k, name, p) : d = c \/ PosBefore(d, c)
        /\ ~NamesCapacity(CreatedBy(NodeAt(sgFile[k].Body, c), name))
        /\ InsideLoop(sgFile[k].Body, p)
        /\ Cardinality(AppendsSince(k, name, c, p)) >= minimum

\* the High findings reported at a position of the file
HighGrowthFindingsAt(pos) ==
    {i \in DOMAIN sgIssues :
        sgIssues[i].Line = pos /\ sgIssues[i].Severity = SeverityHigh}

\* append detection is in force, and the minimum append count in force
AppendDetectionInForce ==
    sgConfig = Nil \/ ~sgConfig.Enabled \/ sgConfig.DetectAppendInLoops
MinAppendCountInForce ==
    IF sgConfig # Nil /\ sgConfig.Enabled THEN sgConfig.MinAppendCount ELSE 3

SliceNames == {"s", "t"}

RecordedImports(packages, p) ==
    IF p \in DOMAIN packages
    THEN {normalizeImportPath(packages[p].imports[i]) : i \in DOMAIN packages[p].imports}
    ELSE {}

\* the recorded graph still misses an import of a file the run analyses from
\* the k-th on
MissesLaterImports(packages, k) ==
    \E j \in k..Len(icFiles) :
        \E q \in FileImportTargets(icFiles[j]) :
            q \notin RecordedImports(packages, getPackagePathFromFile(icFiles[j]))

\* C24: within one run, cycles are extracted once, after every file has
\* contributed its imports: a Detect call (a step that moves on to the next
\* file) that reports a cycle found by its depth-first search never searched a
\* graph that still misses the imports of a file analysed later in the run.
C24_CyclesExtractedAfterAllFiles ==
    [][(icNext' = icNext + 1 /\ icIssues' # icIssues)
          => ~MissesLaterImports(icPackages', icNext')]_vars


\* C25: in the loop facts of the context builder, a loop's IsInnerLoop is true
\* if and only if the loop lies in the body of another loop; a loop that
\* follows an earlier, already closed loop is not marked nested.
C25_InnerLoopIffEnclosed ==
    \A pos \in DOMAIN nlContext :
        nlContext[pos].IsInnerLoop <=> InsideLoop(nlFile.Body, pos)

----------------------------------------------------------------------------
(* findCycles on the import graphs the detector can have recorded *)

\* the import lists processImports can record for a package: at least one and
\* at most MaxImports relative imports of distinct packages
RecordedImportLists ==
    {imps \in SeqsUpTo({RelImport(p) : p \in Pkgs}, MaxImports) :
        /\ Len(imps) >= 1
        /\ \A i, j \in DOMAIN imps : i # j => imps[i] # imps[j]}

\* ImportCycleDetector.packages: some of the packages, each with its imports
\* (a package whose files import nothing has no entry)
PackageGraphs ==
    UNION {[recorded -> RecordedImportLists] : recorded \in SUBSET Pkgs}

InitFindCycles ==
    /\ \E g \in PackageGraphs :
          fcPackages = [p \in DOMAIN g |-> [filePath |-> p, imports |-> g[p], line |-> 1]]
    /\ fcCycles = <<>>
    /\ fcDone = FALSE
    /\ OthersIdleFindCycles

\* d.findCycles() in Detect, for one of the orders in which the range over the
\* packages map can visit its keys
RunFindCycles ==
    /\ ~fcDone
    /\ fcCycles' \in findCycles(fcPackages)
    /\ fcDone' = TRUE
    /\ UNCHANGED <<fcPackages, OtherThanFindCycles>>

NextFindCycles == RunFindCycles

SpecFindCycles == InitFindCycles /\ [][NextFindCycles]_vars

----------------------------------------------------------------------------
(* Claims about findCycles *)

\* package p has a recorded import of package q
RecordedEdge(p, q) ==
    /\ p \in DOMAIN fcPackages
    /\ \E i \in DOMAIN fcPackages[p].imports :
          fcPackages[p].imports[i] = RelImport(q)

\* c is p0..pk with k >= 1 and pk = p0, every consecutive pair a recorded
\* import edge, and p0..p(k-1) pairwise distinct
GenuineCycle(c) ==
    /\ Len(c) >= 2
    /\ c[Len(c)] = c[1]
    /\ \A i \in 1..(Len(c) - 1) : RecordedEdge(c[i], c[i + 1])
    /\ \A i, j \in 1..(Len(c) - 1) : i # j => c[i] # c[j]

\* C26: every cycle findCycles returns is a genuine directed cycle of the
\* recorded import graph: closed, along recorded import edges, with pairwise
\* distinct members (the cyclical suffix of the search path, not the whole path)
C26_ReturnedCyclesAreGenuine ==
    fcDone => \A i \in DOMAIN fcCycles : GenuineCycle(fcCycles[i])

\* a returned cycle of two or more packages that a package outside of it leads
\* into: a search that starts outside returns the suffix only
C26_Witness ==
    /\ fcDone
    /\ \E i \in DOMAIN fcCycles :
          /\ Len(fcCycles[i]) >= 3
          /\ \E p \in DOMAIN fcPackages :
                /\ \A k \in DOMAIN fcCycles[i] : fcCycles[i][k] # p
                /\ RecordedEdge(p, fcCycles[i][1])
                /\ Len(fcPackages[p].imports) = 1

\* the recorded graph holds a directed cycle: a closed walk along recorded
\* import edges
HasDirectedCycle ==
    \E c \in SeqsUpTo(Pkgs, NumPkgs) :
        /\ Len(c) >= 1
        /\ \A i \in DOMAIN c : RecordedEdge(c[i], c[(i % Len(c)) + 1])

\* C27: for every recorded graph and every iteration order over its packages,
\* findCycles returns at least one cycle if the graph holds a directed cycle
\* and none if it is acyclic
C27_FindCyclesCompleteForExistence ==
    fcDone => (fcCycles # <<>> <=> HasDirectedCycle)

\* a graph with a cycle that the search meets only after a branch that leads
\* nowhere: the first import of a package is of a package with no entry, its
\* second import closes a cycle, and a cycle is returned
C27_Witness ==
    /\ fcDone /\ fcCycles # <<>>
    /\ \E p \in DOMAIN fcPackages :
          /\ Len(fcPackages[p].imports) = 2
          /\ fcPackages[p].imports[1].path \notin DOMAIN fcPackages
          /\ \E i \in DOMAIN fcCycles : fcCycles[i][1] = p

----------------------------------------------------------------------------
(* Claims about the complexity computation *)

\* the positions of the nodes of a body that lie in no function literal
OutsideFuncLit(body) ==
    {pos \in Positions(body, <<>>) :
        \A k \in 0..(Len(pos) - 1) : NodeAt(body, SubSeq(pos, 1, k)).kind # "FuncLit"}

\* the nodes among them of the given kinds
NodesOfKind(body, kinds) == {pos \in OutsideFuncLit(body) : NodeAt(body, pos).kind \in kinds}

\* the if statements with an else branch that is not itself an if
PlainElses(body) ==
    {pos \in NodesOfKind(body, {"IfStmt"}) :
        LET n == NodeAt(body, pos)
        IN Len(n.kids) = 3 /\ n.kids[3].kind # "IfStmt"}

\* the case clauses other than default, and the && and || operators
NonDefaultCases(body) ==
    {pos \in NodesOfKind(body, {"CaseClause"}) : NodeAt(body, pos).tag # "default"}
LogicalOperators(body) ==
    {pos \in NodesOfKind(body, {"BinaryExpr"}) : NodeAt(body, pos).tag \in {"&&", "||"}}

\* 1 + ifs + plain elses + loops + switches + non-default cases + select
\* clauses + logical operators
CountedComplexity(body) ==
    1 + Cardinality(NodesOfKind(body, {"IfStmt"}))
      + Cardinality(PlainElses(body))
      + Cardinality(NodesOfKind(body, {"ForStmt", "RangeStmt"}))
      + Cardinality(NodesOfKind(body, {"SwitchStmt", "TypeSwitchStmt"}))
      + Cardinality(NonDefaultCases(body))
      + Cardinality(NodesOfKind(body, {"CommClause"}))
      + Cardinality(LogicalOperators(body))

\* C28: the cyclomatic complexity computed for a function body, and reported in
\* its finding, is 1 + the if statements + the else branches that are not
\* themselves an if + the for and range loops + the switch and type-switch
\* statements + the case clauses other than default + the select clauses + the
\* && and || operators, counting only nodes outside nested function literals
C28_ComplexityIsTheCount ==
    (cxCount > 0 /\ cxFn.Body # Nil) =>
        /\ calculateComplexity(cxFn.Body) = CountedComplexity(cxFn.Body)
        /\ \A i \in IssuesAtLine(cxIssues, cxCount) :
              cxIssues[i].Complexity = CountedComplexity(cxFn.Body)

\* the first function visited was reported with complexity 4, and the second
\* one holds its only decisions in a function literal and has complexity 1
C28_Witness ==
    /\ cxCount = 2 /\ cxFn.Body # Nil
    /\ \E i \in IssuesAtLine(cxIssues, 1) : cxIssues[i].Complexity = 4
    /\ NodesOfKind(cxFn.Body, {"FuncLit"}) # {}
    /\ NodesOfKind(cxFn.Body, {"IfStmt"}) = {}
    /\ \E pos \in Positions(cxFn.Body, <<>>) : NodeAt(cxFn.Body, pos).kind = "IfStmt"
    /\ calculateComplexity(cxFn.Body) = 1
    /\ IssuesAtLine(cxIssues, 2) = {}

----------------------------------------------------------------------------
(* The traversals of the detectors that track loops, followed visit by visit *)

LoopTrackingDetectors ==
    {"nested_loops", "memory_allocation", "slice_growth", "data_structure",
     "string_concatenation"}

\* the files each of them is given: those of its own specification, as lists
\* of function declarations with a body
LoopTrackingFiles(detector) ==
    CASE detector = "nested_loops" -> {<<f>> : f \in LoopFuncDecls}
      [] detector = "memory_allocation" -> {<<f>> : f \in AllocFuncDecls}
      [] detector = "slice_growth" -> SliceFiles
      [] detector = "data_structure" -> {<<f>> : f \in SearchFuncDecls}
      [] detector = "string_concatenation" -> {<<f>> : f \in ConcatFuncDecls}

InitLoopTracking ==
    /\ ltDetector \in LoopTrackingDetectors
    /\ ltFile \in LoopTrackingFiles(ltDetector)
    /\ ltVisits = <<>>
    /\ ltFinal = Nil
    /\ ltDone = FALSE
    /\ OthersIdleLoopTracking

\* NestedLoopDetector.Detect: ast.Walk with a new nestedLoopVisitor
TraverseNestedLoops ==
    /\ ~ltDone /\ ltDetector = "nested_loops"
    /\ LET v == nestedLoopWalk(Nil, <<>>, ltFile[1].Body, <<1>>,
                               [loopDepth |-> 0, issues |-> <<>>, visits |-> <<>>])
       IN /\ ltVisits' = v.visits
          /\ ltFinal' = [loopDepth |-> v.loopDepth]
    /\ ltDone' = TRUE
    /\ UNCHANGED <<ltDetector, ltFile, OtherThanLoopTracking>>

\* MemoryAllocDetector.Detect: ast.Walk with a new memoryAllocVisitor
TraverseMemoryAlloc ==
    /\ ~ltDone /\ ltDetector = "memory_allocation"
    /\ LET v == memoryAllocWalk(Nil, ltFile[1].Body, <<1>>,
                                [loopDepth |-> 0, inLoop |-> FALSE, issues |-> <<>>,
                                 visits |-> <<>>])
       IN /\ ltVisits' = v.visits
          /\ ltFinal' = [loopDepth |-> v.loopDepth, inLoop |-> v.inLoop]
    /\ ltDone' = TRUE
    /\ UNCHANGED <<ltDetector, ltFile, OtherThanLoopTracking>>

\* SliceGrowthDetector.Detect: ast.Walk with a new sliceGrowthVisitor
TraverseSliceGrowth ==
    /\ ~ltDone /\ ltDetector = "slice_growth"
    /\ LET v == sliceGrowthWalkDecls(Nil, ltFile, 1,
                                     [sliceVars |-> <<>>, inLoop |-> FALSE, loopDepth |-> 0,
                                      issues |-> <<>>, visits |-> <<>>])
       IN /\ ltVisits' = v.visits
          /\ ltFinal' = [loopDepth |-> v.loopDepth, inLoop |-> v.inLoop]
    /\ ltDone' = TRUE
    /\ UNCHANGED <<ltDetector, ltFile, OtherThanLoopTracking>>

\* DataStructureDetector.Detect: ast.Walk with a new dataStructureVisitor
TraverseDataStructure ==
    /\ ~ltDone /\ ltDetector = "data_structure"
    /\ LET v == dataStructureWalk(Nil, ltFile[1].Body, <<1>>,
                                  [loopDepth |-> 0, inLoop |-> FALSE, issues |-> <<>>,
                                   visits |-> <<>>])
       IN /\ ltVisits' = v.visits
          /\ ltFinal' = [loopDepth |-> v.loopDepth, inLoop |-> v.inLoop]
    /\ ltDone' = TRUE
    /\ UNCHANGED <<ltDetector, ltFile, OtherThanLoopTracking>>

\* StringConcatDetector.Detect: ast.Walk with a new stringConcatVisitor
TraverseStringConcat ==
    /\ ~ltDone /\ ltDetector = "string_concatenation"
    /\ LET v == stringConcatWalk(Nil, ltFile[1].Body, <<1>>,
                                 [inLoop |-> FALSE, issues |-> <<>>, visits |-> <<>>])
       IN /\ ltVisits' = v.visits
          /\ ltFinal' = [inLoop |-> v.inLoop]
    /\ ltDone' = TRUE
    /\ UNCHANGED <<ltDetector, ltFile, OtherThanLoopTracking>>

NextLoopTracking ==
    \/ TraverseNestedLoops
    \/ TraverseMemoryAlloc
    \/ TraverseSliceGrowth
    \/ TraverseDataStructure
    \/ TraverseStringConcat

SpecLoopTracking == InitLoopTracking /\ [][NextLoopTracking]_vars

----------------------------------------------------------------------------
(* Claims about loop tracking *)

\* the number of for and range loops whose body the node at pos lies in; pos
\* starts with the index of its function declaration
EnclosingLoops(pos) == LoopNestingDepth(ltFile[Head(pos)].Body, Tail(pos)) - 1

\* C29: in every detector traversal that tracks loops, at each visited node
\* the loop-depth counter equals the number of for/range loops that enclose
\* the node and is never negative, the in-loop flag is set exactly inside
\* loops (it is restored when a loop is left), and when the traversal of the
\* file ends the counter is 0 and the flag is off
C29_LoopDepthIsLexicalDepth ==
    ltDone =>
        /\ \A i \in DOMAIN ltVisits :
              LET visit == ltVisits[i]
              IN /\ "loopDepth" \in DOMAIN visit =>
                        visit.loopDepth = EnclosingLoops(visit.pos) /\ visit.loopDepth >= 0
                 /\ "inLoop" \in DOMAIN visit =>
                        (visit.inLoop <=> EnclosingLoops(visit.pos) > 0)
        /\ "loopDepth" \in DOMAIN ltFinal => ltFinal.loopDepth = 0
        /\ "inLoop" \in DOMAIN ltFinal => ~ltFinal.inLoop

\* the memory allocation traversal visited a statement inside two loops and,
\* after them, a statement of the function body outside every loop
C29_Witness ==
    /\ ltDone /\ ltDetector = "memory_allocation"
    /\ \E i, j \in DOMAIN ltVisits :
          /\ i < j
          /\ ltVisits[i].loopDepth = 2 /\ ltVisits[i].inLoop
          /\ ltVisits[j].loopDepth = 0 /\ ~ltVisits[j].inLoop
          /\ Len(ltVisits[j].pos) = 2

----------------------------------------------------------------------------
(* Claims about the debouncer: no event is lost *)

\* the callback of timer t has ended without a handler call: its flush found
\* nothing pending
FlushedNothing(t) ==
    /\ dbTimers[t] = "done"
    /\ \A i \in DOMAIN dbTrace : dbTrace[i].op = "handler" => dbTrace[i].timer # t

\* C30: as long as stop is not called (the watcher is not closed) and handler
\* calls return, each path passed to add is eventually passed to the handler by
\* some flush, under every interleaving of adds and timer firings; and a flush
\* that finds nothing pending ends without a handler call, so the handler is
\* never given an empty list.
C30_NoEventLost ==
    /\ \A path \in WatchedPaths, n \in 1..MaxTrace :
          (/\ Len(dbTrace) = n
           /\ dbTrace[n].op = "add" /\ dbTrace[n].path = path)
          ~> (HandedOverAfter(path, n) \/ dbMain = "closed")
    /\ [][\A t \in DOMAIN dbTimers :
              (dbTimers[t] = "fired" /\ DOMAIN dbEvents = {} /\ dbTimers'[t] # "fired")
                  => (dbTimers'[t] = "done" /\ dbTrace' = dbTrace)]_vars
    /\ [](\A i \in DOMAIN dbTrace :
              dbTrace[i].op = "handler" => dbTrace[i].changedFiles # {})

\* with the watcher open, two paths were added, the callback of the first
\* timer had already started and handed both over, and the flush of the second
\* timer found nothing pending and called no handler
C30_Witness ==
    /\ dbMain = "waiting"
    /\ Len(dbTrace) >= 3
    /\ dbTrace[1].op = "add" /\ dbTrace[2].op = "add"
    /\ dbTrace[1].path # dbTrace[2].path
    /\ dbTrace[3].op = "handler" /\ dbTrace[3].timer = 1
    /\ dbTrace[3].changedFiles = {dbTrace[1].path, dbTrace[2].path}
    /\ FlushedNothing(2)

====
